---- MODULE Spec2Model ----
(***************************************************************************)
(* ECA (Easier/Enhanced CSS3 Animations): the visibility-and-timing        *)
(* decision engine of src/eca.js as a state machine.                       *)
(*                                                                         *)
(* The program state is the Elem / ElemGroup object graph (elems, groups), *)
(* eca.state (st), and the parts of the browser the engine talks to: the   *)
(* DOM (dom: scroll offset, viewport height, every target's box, class and *)
(* inline style), the IntersectionObserver's target list (observed), the   *)
(* animation-frame callback queue (rafQueue) and the pending group-delay   *)
(* timers (timers).  One action = one browser task: a scroll event, a      *)
(* resize event, an observer callback batch, a timer firing, or one        *)
(* animation frame that runs every queued frame callback in order.         *)
(*                                                                         *)
(* Lengths are in abstract pixels; thresholds are kept in quarters         *)
(* (0..4 for 0, 0.25, 0.5, 0.75, 1) so every comparison is on integers.    *)
(***************************************************************************)
EXTENDS Integers, Sequences, FiniteSets, TLC

VARIABLES
    useScroll,   \* eca.globals.useScroll: polling (TRUE) or IntersectionObserver
    groups,      \* eca.animatable.elemGroups: sequence of ElemGroup records
    elems,       \* every Elem instance, indexed by its target (document order)
    st,          \* eca.state
    dom,         \* window.scrollY, clientHeight, and each target's box/class/style
    observed,    \* the observer's observation targets, in observation order
    rafQueue,    \* callbacks handed to requestAnimationFrame, not yet run
    timers,      \* pending setTimeout callbacks of delayGroup: [id, g]
    throttles,   \* the closures throttle made for the resize and scroll handlers
    log          \* history: what the last task did, in order

vars == <<useScroll, groups, elems, st, dom, observed, rafQueue, timers, throttles, log>>

\* JS null / undefined in a numeric or reference slot
NULL == -999

\* JS relational comparison converts null to 0
Num(x) == IF x = NULL THEN 0 ELSE x

\* JS truthiness of a number-or-null
Truthy(x) == x # NULL /\ x # 0

(***************************************************************************)
(* Bounds                                                                  *)
(***************************************************************************)
\* scroll offsets the user can reach: 0..MaxScrollY steps of dom.scrollStep
\* pixels each
MaxScrollY == 1

Range(s) == {s[i] : i \in DOMAIN s}

\* obj[k] = v on a JavaScript object: the key is added when it is missing
Put(f, k, v) == [x \in DOMAIN f \cup {k} |-> IF x = k THEN v ELSE f[x]]

Reverse(s) == [i \in 1..Len(s) |-> s[Len(s) + 1 - i]]

RECURSIVE SeqSum(_)
SeqSum(s) == IF s = <<>> THEN 0 ELSE Head(s) + SeqSum(Tail(s))

\* Array.prototype.forEach over a sequence, threading the machine state S
RECURSIVE ForEach(_, _, _)
ForEach(Op(_, _), S, s) ==
    IF s = <<>> THEN S ELSE ForEach(Op, Op(S, Head(s)), Tail(s))

\* history: append one event of the running task.  id is the element or group
\* the event is about, val its value (the delay written, the timer handle),
\* nsd the nextStaggeredDelay of the group concerned once the event is over
Log(S, ev, id, val, nsd) ==
    [S EXCEPT !.log = Append(@, [ev |-> ev, id |-> id, val |-> val, nsd |-> nsd])]

(***************************************************************************)
(* Elem and ElemGroup (the data model)                                     *)
(***************************************************************************)
\* conversionTable[Number(threshold)] || 0, in quarters; the attribute is
\* given as the number of quarters it spells, or NULL when it is absent or
\* spells none of the five values
convertThreshold(threshold) ==
    IF threshold \in {0, 1, 2, 3, 4} THEN threshold ELSE 0

\* a data-eca-* time attribute: the number it spells and its unit ("ms", "s",
\* or "" for none); an absent attribute spells no number
NoAttr == [n |-> NULL, unit |-> ""]
Ms(n) == [n |-> n, unit |-> "ms"]
Sec(n) == [n |-> n, unit |-> "s"]

\* eca.helpers.convertToMS: an absent value is handed back as it is, seconds
\* are multiplied by 1000, milliseconds and unitless numbers are kept
convertToMS(value) ==
    IF value.n = NULL THEN NULL
    ELSE IF value.unit = "ms" THEN value.n
    ELSE IF value.unit = "s" THEN value.n * 1000
    ELSE value.n

\* new Elem(target, elemGroup, groupThreshold): target is the index of the
\* element in the document, attrs its data-eca-* attributes and inline style
NewElem(target, attrs, g, groupThreshold) ==
    LET th == convertThreshold(IF attrs.threshold # NULL THEN attrs.threshold
                               ELSE groupThreshold) IN
    [ top |-> NULL, bottom |-> NULL,
      isVisible |-> FALSE, isAnimated |-> FALSE,
      threshold |-> th, originalThreshold |-> th,
      uniqueDelay |-> convertToMS(attrs.delay),
      group |-> g, target |-> target,
      originalInlineStyles |-> attrs.style ]

\* a data-eca-* option that is not set (htmlElem.dataset[name], or
\* eca.globals[name], is undefined), and the boolean false getOption falls
\* back to
Undefined == "<undefined>"
False == "<false>"

\* the values of a boolean option used here, as read after trim() and
\* toLowerCase(): not set, present without value, "true", "false", and some
\* other text
OptionValues == {Undefined, "", "true", "false", "yes"}

\* eca.helpers.getOption for a boolean option (neither isStr nor isNum): the
\* element's own attribute wins, else the global option where the option has
\* one, else false; every value but "false" and false counts as true
getOption(elemValue, globalValue, hasGlobal) ==
    LET value == IF elemValue # Undefined THEN elemValue
                 ELSE IF ~hasGlobal THEN False
                 ELSE IF globalValue # Undefined THEN globalValue
                 ELSE False IN
    ~(value = "false" \/ value = False)

\* this.animatesAllOnFirstSight, with the override for play-on-load left out
MutuallyExclusive_NoOverride(playsOnLoad, animatesAllOnFirstSight) ==
    animatesAllOnFirstSight

\* this.animatesAllOnFirstSight = this.playsOnLoad ? false : this.animatesAllOnFirstSight
MutuallyExclusive(playsOnLoad, animatesAllOnFirstSight) ==
    IF playsOnLoad THEN FALSE ELSE animatesAllOnFirstSight

\* new ElemGroup(htmlElem, groupId): opts are the resolved data-eca-* options
\* of the group's first element, members the targets found for the group
NewElemGroup(opts, members, g, groupId) ==
    [ elems |-> members,
      groupId |-> groupId,
      delayMultiplier |-> opts.stagger,
      staggersFromZero |-> opts.staggerFromZero,
      nextStaggeredDelay |-> NULL,
      groupDelay |-> opts.groupDelay,
      originalGroupDelay |-> opts.groupDelay,
      isDelaying |-> FALSE,
      delayId |-> NULL,
      isFinishedAnimating |-> FALSE,
      numElemsAnimated |-> 0,
      playsOnLoad |-> opts.playOnLoad,
      playsReversed |-> opts.reverse,
      animatesAllOnFirstSight |->
          MutuallyExclusive(opts.playOnLoad, opts.animateAllOnFirstSight),
      upToDateELem |-> IF members = <<>> THEN NULL ELSE members[1],
      listen |-> opts.listen,
      listensOnce |-> opts.listenOnce,
      trackingFn |-> FALSE,
      animatesWithTransitions |-> opts.animateWithTransitions,
      removesAnimationWhenNotInView |-> opts.removeAnimationWhenNotInView,
      isVisible |-> opts.playOnLoad,
      numElemsVisible |-> 0 ]

\* ElemGroup.updateVisibility, with the decrement lost
updateVisibility_NoDecrement(S, g, elemIsVisible) ==
    LET n == S.groups[g].numElemsVisible + (IF elemIsVisible THEN 1 ELSE 0) IN
    [S EXCEPT !.groups[g].numElemsVisible = n,
              !.groups[g].isVisible = (n > 0)]

\* ElemGroup.updateVisibility
updateVisibility(S, g, elemIsVisible) ==
    LET n == S.groups[g].numElemsVisible + (IF elemIsVisible THEN 1 ELSE -1) IN
    [S EXCEPT !.groups[g].numElemsVisible = n,
              !.groups[g].isVisible = (n > 0)]

\* ElemGroup.updateAnimationStatus, with the decrement lost
updateAnimationStatus_NoDecrement(S, g, elemIsAnimated) ==
    LET n == S.groups[g].numElemsAnimated + (IF elemIsAnimated THEN 1 ELSE 0) IN
    [S EXCEPT !.groups[g].numElemsAnimated = n,
              !.groups[g].isFinishedAnimating = (n = Len(S.groups[g].elems))]

\* ElemGroup.updateAnimationStatus
updateAnimationStatus(S, g, elemIsAnimated) ==
    LET n == S.groups[g].numElemsAnimated + (IF elemIsAnimated THEN 1 ELSE -1) IN
    [S EXCEPT !.groups[g].numElemsAnimated = n,
              !.groups[g].isFinishedAnimating = (n = Len(S.groups[g].elems))]

\* ElemGroup.updateNextStaggeredDelay
updateNextStaggeredDelay(S, g) ==
    LET grp == S.groups[g] IN
    IF Truthy(grp.nextStaggeredDelay)
    THEN [S EXCEPT !.groups[g].nextStaggeredDelay = @ + grp.delayMultiplier]
    ELSE IF grp.nextStaggeredDelay = NULL /\ Truthy(grp.delayMultiplier)
    THEN [S EXCEPT !.groups[g].nextStaggeredDelay =
              IF grp.staggersFromZero THEN grp.delayMultiplier
              ELSE 2 * grp.delayMultiplier]
    ELSE S

\* the setter of Elem.isVisible that also clears isAnimated when the member
\* stops being visible
SetIsVisible_ClearsAnimated(S, e, isVisible) ==
    LET prev == S.elems[e].isVisible
        S1 == [S EXCEPT !.elems[e].isVisible = isVisible,
                        !.elems[e].isAnimated = @ /\ isVisible] IN
    IF isVisible # prev THEN updateVisibility(S1, S.elems[e].group, isVisible) ELSE S1

\* set Elem.isVisible
SetIsVisible(S, e, isVisible) ==
    LET prev == S.elems[e].isVisible
        S1 == [S EXCEPT !.elems[e].isVisible = isVisible] IN
    IF isVisible # prev THEN updateVisibility(S1, S.elems[e].group, isVisible) ELSE S1

\* set Elem.isAnimated
SetIsAnimated(S, e, isAnimated) ==
    LET prev == S.elems[e].isAnimated
        S1 == [S EXCEPT !.elems[e].isAnimated = isAnimated] IN
    IF isAnimated # prev THEN updateAnimationStatus(S1, S.elems[e].group, isAnimated) ELSE S1

\* Elem.isReadyToDeanimate with "below" and "above" read as "true"
isReadyToDeanimate_AnyDirection(S, e) ==
    LET el == S.elems[e]
        grp == S.groups[el.group]
        rm == grp.removesAnimationWhenNotInView IN
    IF rm = "false" \/ grp.playsOnLoad \/ ~el.isAnimated THEN FALSE
    ELSE IF grp.animatesAllOnFirstSight THEN ~grp.isVisible ELSE ~el.isVisible

\* Elem.isReadyToDeanimate without the test of playsOnLoad
isReadyToDeanimate_IgnoresPlayOnLoad(S, e) ==
    LET el == S.elems[e]
        grp == S.groups[el.group]
        rm == grp.removesAnimationWhenNotInView
        upToDate == S.elems[grp.upToDateELem] IN
    IF rm = "false" \/ ~el.isAnimated THEN FALSE
    ELSE IF rm = "true"
    THEN (IF grp.animatesAllOnFirstSight THEN ~grp.isVisible ELSE ~el.isVisible)
    ELSE IF rm = "below"
    THEN (IF grp.animatesAllOnFirstSight
          THEN ~grp.isVisible /\ Num(upToDate.bottom) > S.st.windowHeight
          ELSE ~el.isVisible /\ Num(el.bottom) > S.st.windowHeight)
    ELSE IF rm = "above"
    THEN (IF grp.animatesAllOnFirstSight
          THEN ~grp.isVisible /\ Num(upToDate.top) < 0
          ELSE ~el.isVisible /\ Num(el.top) < 0)
    ELSE FALSE

\* get Elem.isReadyToDeanimate
isReadyToDeanimate(S, e) ==
    LET el == S.elems[e]
        grp == S.groups[el.group]
        rm == grp.removesAnimationWhenNotInView
        upToDate == S.elems[grp.upToDateELem] IN
    IF rm = "false" \/ grp.playsOnLoad \/ ~el.isAnimated THEN FALSE
    ELSE IF rm = "true"
    THEN (IF grp.animatesAllOnFirstSight THEN ~grp.isVisible ELSE ~el.isVisible)
    ELSE IF rm = "below"
    THEN (IF grp.animatesAllOnFirstSight
          THEN ~grp.isVisible /\ Num(upToDate.bottom) > S.st.windowHeight
          ELSE ~el.isVisible /\ Num(el.bottom) > S.st.windowHeight)
    ELSE IF rm = "above"
    THEN (IF grp.animatesAllOnFirstSight
          THEN ~grp.isVisible /\ Num(upToDate.top) < 0
          ELSE ~el.isVisible /\ Num(el.top) < 0)
    ELSE FALSE

\* Elem.isReadyToAnimate without the animatesAllOnFirstSight alternative
isReadyToAnimate_OwnVisibility(S, e) ==
    LET el == S.elems[e]
        grp == S.groups[el.group] IN
    IF el.isAnimated \/ grp.isDelaying THEN FALSE
    ELSE el.isVisible \/ grp.playsOnLoad

\* Elem.isReadyToAnimate without the playsOnLoad alternative
isReadyToAnimate_VisibleOnly(S, e) ==
    LET el == S.elems[e]
        grp == S.groups[el.group] IN
    IF el.isAnimated \/ grp.isDelaying THEN FALSE
    ELSE el.isVisible \/ (grp.animatesAllOnFirstSight /\ grp.isVisible)

\* get Elem.isReadyToAnimate
isReadyToAnimate(S, e) ==
    LET el == S.elems[e]
        grp == S.groups[el.group] IN
    IF el.isAnimated \/ grp.isDelaying THEN FALSE
    ELSE el.isVisible \/ grp.playsOnLoad
         \/ (grp.animatesAllOnFirstSight /\ grp.isVisible)

\* Elem.delay with the stagger counter read before the unique delay
delay_StaggerFirst(S, e) ==
    LET el == S.elems[e]
        grp == S.groups[el.group] IN
    IF Truthy(grp.nextStaggeredDelay) THEN grp.nextStaggeredDelay
    ELSE IF Truthy(el.uniqueDelay) \/ el.uniqueDelay = 0 THEN el.uniqueDelay
    ELSE IF grp.nextStaggeredDelay = NULL /\ Truthy(grp.delayMultiplier)
    THEN (IF grp.staggersFromZero THEN 0 ELSE grp.delayMultiplier)
    ELSE NULL

\* get Elem.delay
delay(S, e) ==
    LET el == S.elems[e]
        grp == S.groups[el.group] IN
    IF Truthy(el.uniqueDelay) \/ el.uniqueDelay = 0 THEN el.uniqueDelay
    ELSE IF Truthy(grp.nextStaggeredDelay) THEN grp.nextStaggeredDelay
    ELSE IF grp.nextStaggeredDelay = NULL /\ Truthy(grp.delayMultiplier)
    THEN (IF grp.staggersFromZero THEN 0 ELSE grp.delayMultiplier)
    ELSE NULL

(***************************************************************************)
(* The DOM as the engine sees it                                           *)
(***************************************************************************)
\* target.getBoundingClientRect(): the box relative to the viewport
getBoundingClientRect(S, e) ==
    LET t == S.dom.els[e].docTop - S.dom.scrollY * S.dom.scrollStep
        h == S.dom.els[e].height IN
    [top |-> t, bottom |-> t + h, height |-> h]

\* the most style strings listeners append to one element's cssText
MaxAppends == 1

\* the value of data-eca-listen: absent; text that JSON.parse rejects; or a
\* JSON object, given by its keys in the order written (the style string of
\* a key is named by the key)
NoListen == [given |-> FALSE, json |-> FALSE, keys |-> <<>>]
BadListen == [given |-> TRUE, json |-> FALSE, keys |-> <<>>]
Listen(keys) == [given |-> TRUE, json |-> TRUE, keys |-> keys]

\* getEventStyles after the first n keys of listenerStyles: stylesToChange,
\* from event names to style strings.  event is "" when the second and the
\* third test read it, so for "run" and "iteration" they ask whether the
\* object has a key "" (and whether "" is "run")
RECURSIVE EventStylesUpTo(_, _, _)
EventStylesUpTo(listenerStyles, withTransitions, n) ==
    IF n = 0 THEN <<>>
    ELSE LET stylesToChange == EventStylesUpTo(listenerStyles, withTransitions, n - 1)
             eventAbbrv == listenerStyles[n]
             event == "" IN
         IF eventAbbrv # "run" /\ eventAbbrv # "iteration"
         THEN Put(stylesToChange,
                  (IF withTransitions THEN "transition" ELSE "animation") \o eventAbbrv,
                  eventAbbrv)
         ELSE IF event \in Range(listenerStyles) /\ event = "run"
         THEN Put(stylesToChange, "transitionrun", eventAbbrv)
         ELSE IF event \in Range(listenerStyles)
         THEN Put(stylesToChange, "animationiteration", eventAbbrv)
         ELSE stylesToChange

\* eca.animatable.getEventStyles
getEventStyles(listenerStyles, elemGroup) ==
    EventStylesUpTo(listenerStyles, elemGroup.animatesWithTransitions, Len(listenerStyles))

\* addListeners that reports nothing when JSON.parse throws
addListeners_Silent(elemGroup) ==
    IF ~elemGroup.listen.given \/ ~elemGroup.listen.json
    THEN [events |-> <<>>, errors |-> <<>>]
    ELSE [events |-> getEventStyles(elemGroup.listen.keys, elemGroup), errors |-> <<>>]

\* eca.animatable.addListeners: the listeners every target of the group
\* gets (event name -> style string), and the group ids console.error names
addListeners(elemGroup) ==
    IF ~elemGroup.listen.given THEN [events |-> <<>>, errors |-> <<>>]
    ELSE IF ~elemGroup.listen.json
    THEN [events |-> <<>>, errors |-> <<elemGroup.groupId>>]
    ELSE [events |-> getEventStyles(elemGroup.listen.keys, elemGroup), errors |-> <<>>]

\* eca.animatable.setStyles(htmlElem, newStyles)
setStyles(S, e) ==
    [S EXCEPT !.dom.els[e].style.appended = @ + 1]

\* target.style.animationDelay / transitionDelay = delay + "ms"
SetDelayStyle(style, withTransitions, d) ==
    IF withTransitions THEN [style EXCEPT !.transitionDelay = d]
    ELSE [style EXCEPT !.animationDelay = d]

\* calculateVisibility that applies the threshold to visible members too
calculateVisibility_ThresholdOnExit(S, e) ==
    LET windowHeight == S.st.windowHeight
        rect == getBoundingClientRect(S, e)
        el == S.elems[e]
        pixelThreshold4 == (rect.height * el.threshold) - (IF el.threshold = 4 THEN 4 ELSE 0)
        S1 == [S EXCEPT !.elems[e].top = rect.top, !.elems[e].bottom = rect.bottom]
        vis == (4 * rect.top + pixelThreshold4 < 4 * windowHeight)
               /\ (4 * rect.bottom - pixelThreshold4 > 0) IN
    SetIsVisible(Log(S1, "read", e, el.group, NULL), e, vis)

(***************************************************************************)
(* Polling strategy: reads                                                 *)
(***************************************************************************)
\* eca.animatable.calculateVisibility; thresholds are quarters, so both
\* sides of each comparison are multiplied by 4
calculateVisibility(S, e) ==
    LET windowHeight == S.st.windowHeight
        rect == getBoundingClientRect(S, e)
        el == S.elems[e]
        pt4 == (rect.height * el.threshold) - (IF el.threshold = 4 THEN 4 ELSE 0)
        pixelThreshold4 ==
            IF el.isVisible /\ ~S.groups[el.group].animatesWithTransitions
            THEN 0 ELSE pt4
        S1 == [S EXCEPT !.elems[e].top = rect.top, !.elems[e].bottom = rect.bottom]
        vis == (4 * rect.top + pixelThreshold4 < 4 * windowHeight)
               /\ (4 * rect.bottom - pixelThreshold4 > 0) IN
    SetIsVisible(Log(S1, "read", e, el.group, NULL), e, vis)

\* eca.animatable.readOne
readOne(S, g) == ForEach(calculateVisibility, S, S.groups[g].elems)

\* the guard shared by readAll and updateAll
Eligible(S, g) ==
    LET grp == S.groups[g] IN
    (grp.removesAnimationWhenNotInView # "false" \/ ~grp.isFinishedAnimating)
    /\ ~grp.isDelaying

\* eca.animatable.readAll
readAll(S) ==
    LET step(T, g) == IF Eligible(T, g) THEN readOne(T, g) ELSE T IN
    ForEach(step, S, [g \in 1..Len(S.groups) |-> g])

(***************************************************************************)
(* Animation decision logic: writes                                        *)
(***************************************************************************)
\* eca.animatable.animate
animate(S, e) ==
    LET el == S.elems[e]
        g == el.group
        d == delay(S, e)
        S1 == IF d # NULL
              THEN [S EXCEPT !.dom.els[e].style =
                        SetDelayStyle(@, S.groups[g].animatesWithTransitions, d)]
              ELSE S
        S2 == IF ~Truthy(el.uniqueDelay) THEN updateNextStaggeredDelay(S1, g) ELSE S1
        S3 == [S2 EXCEPT !.dom.els[e].animated = TRUE] IN
    Log(SetIsAnimated(S3, e, TRUE), "animate", e, d, S3.groups[g].nextStaggeredDelay)

\* deAnimate that leaves target.style.cssText as it is
deAnimate_KeepsStyle(S, e) ==
    LET S1 == [S EXCEPT !.dom.els[e].animated = FALSE]
        S2 == SetIsAnimated(S1, e, FALSE) IN
    Log(S2, "deAnimate", e, S.dom.els[e].style.appended,
        S2.groups[S.elems[e].group].nextStaggeredDelay)

\* eca.animatable.deAnimate; the history keeps (val) how many appended style
\* strings the element carried when it was called
deAnimate(S, e) ==
    LET S1 == [S EXCEPT !.dom.els[e].animated = FALSE]
        S2 == SetIsAnimated(S1, e, FALSE)
        S3 == [S2 EXCEPT !.dom.els[e].style = S.elems[e].originalInlineStyles] IN
    Log(S3, "deAnimate", e, S.dom.els[e].style.appended,
        S3.groups[S.elems[e].group].nextStaggeredDelay)

\* eca.animatable.updateAnimations
updateAnimations(S, e) ==
    IF isReadyToAnimate(S, e) THEN animate(S, e)
    ELSE IF isReadyToDeanimate(S, e) THEN deAnimate(S, e)
    ELSE Log(S, "leave", e, IF S.elems[e].isAnimated THEN 1 ELSE 0, NULL)

\* updateMutableProps that never restores the group delay
updateMutableProps_NoRearm(S, g) ==
    [S EXCEPT !.groups[g].nextStaggeredDelay = NULL]

\* eca.animatable.updateMutableProps
updateMutableProps(S, g) ==
    LET S1 == [S EXCEPT !.groups[g].nextStaggeredDelay = NULL] IN
    IF S1.groups[g].numElemsAnimated = 0
    THEN [S1 EXCEPT !.groups[g].groupDelay =
              IF Truthy(@) THEN @ ELSE S1.groups[g].originalGroupDelay]
    ELSE S1

\* a setTimeout handle no live timer and no stored reference carries
FreshTimerId(S) ==
    LET used == {t.id : t \in S.timers}
                \cup {S.groups[g].delayId : g \in DOMAIN S.groups}
                \cup Range(S.st.groupDelayIds) IN
    CHOOSE i \in 1..(2 * Len(S.groups) + Cardinality(S.timers) + 1) :
        i \notin used /\ \A j \in 1..(i - 1) : j \in used

\* delayGroup that zeroes the group delay at once instead of in the timer
\* callback
delayGroup_ZeroesAtOnce(S, g) ==
    LET id == FreshTimerId(S)
        S1 == [S EXCEPT !.groups[g].isDelaying = TRUE,
                        !.groups[g].originalGroupDelay = S.groups[g].groupDelay,
                        !.groups[g].groupDelay = 0,
                        !.groups[g].delayId = id,
                        !.timers = @ \cup {[id |-> id, g |-> g]},
                        !.st.groupDelayIds = Put(@, S.groups[g].groupId, id)] IN
    Log(S1, "delayGroup", g, id, S1.groups[g].nextStaggeredDelay)

\* eca.animatable.delayGroup: the part that runs at once (the body of the
\* setTimeout callback is TimerCallback)
delayGroup(S, g) ==
    LET id == FreshTimerId(S)
        S1 == [S EXCEPT !.groups[g].isDelaying = TRUE,
                        !.groups[g].originalGroupDelay = S.groups[g].groupDelay,
                        !.groups[g].delayId = id,
                        !.timers = @ \cup {[id |-> id, g |-> g]},
                        !.st.groupDelayIds = Put(@, S.groups[g].groupId, id)] IN
    Log(S1, "delayGroup", g, id, S1.groups[g].nextStaggeredDelay)

\* updateOne without the group-delay branch
updateOne_NoGroupDelay(S, g) ==
    updateMutableProps(
        ForEach(updateAnimations,
                Log(S, "pass", g, NULL, S.groups[g].nextStaggeredDelay),
                S.groups[g].elems),
        g)

\* eca.animatable.updateOne
updateOne(S, g) ==
    LET grp == S.groups[g] IN
    IF grp.groupDelay > 0 /\ grp.isVisible
    THEN delayGroup(S, g)
    ELSE updateMutableProps(
             ForEach(updateAnimations, Log(S, "pass", g, NULL, grp.nextStaggeredDelay), grp.elems),
             g)

\* eca.animatable.updateAll
updateAll(S) ==
    LET step(T, g) == IF Eligible(T, g) THEN updateOne(T, g) ELSE T IN
    ForEach(step, S, [g \in 1..Len(S.groups) |-> g])

\* the arrow function delayGroup hands to setTimeout
TimerCallback(S, g) ==
    LET S1 == [S EXCEPT !.st.groupDelayIds = Put(@, S.groups[g].groupId, NULL),
                        !.groups[g].groupDelay = 0,
                        !.groups[g].isDelaying = FALSE]
        S2 == IF S.useScroll THEN readOne(S1, g) ELSE S1 IN
    [S2 EXCEPT !.rafQueue = Append(@, [cb |-> "updateOne", g |-> g, subsets |-> <<>>])]

(***************************************************************************)
(* Event-driven strategy (IntersectionObserver)                            *)
(***************************************************************************)
\* the IntersectionObserverEntry the browser reports for a target now
EntryFor(S, e) ==
    LET rect == getBoundingClientRect(S, e)
        vh == S.dom.clientHeight
        lo == IF rect.top > 0 THEN rect.top ELSE 0
        hi == IF rect.bottom < vh THEN rect.bottom ELSE vh IN
    [ target |-> e, top |-> rect.top, bottom |-> rect.bottom,
      height |-> rect.height,
      isIntersecting |-> (rect.top <= vh /\ rect.bottom >= 0),
      overlap |-> IF hi > lo THEN hi - lo ELSE 0 ]

\* entry.intersectionRatio > threshold, < threshold, < 1 (threshold in quarters)
RatioAbove(entry, th) == 4 * entry.overlap > th * entry.height
RatioBelow(entry, th) == 4 * entry.overlap < th * entry.height
RatioBelowOne(entry) == entry.overlap < entry.height

\* observer.unobserve(target)
unobserve(S, e) == [S EXCEPT !.observed = SelectSeq(@, LAMBDA x : x # e)]

\* observer.observe(target)
observe(S, e) ==
    IF e \in Range(S.observed) THEN S ELSE [S EXCEPT !.observed = Append(@, e)]

\* elemsUpdatedAtY[scrollY].has(elem)
UpdatedAtThisY(S, e) ==
    S.st.elemsUpdatedAtY.y = S.st.scrollY /\ e \in S.st.elemsUpdatedAtY.map

\* shouldSkipUpdate without the test of the entries already processed at
\* this scroll offset
shouldSkipUpdate_NoSameOffsetGuard(S, e, entry) ==
    LET el == S.elems[e]
        grp == S.groups[el.group]
        elemWasVisible == el.isVisible
        elemStillVisible == RatioAbove(entry, el.threshold)
        elemStillNotVisible == RatioBelow(entry, el.threshold) IN
    IF grp.playsOnLoad
    THEN [unobserve(S, e) EXCEPT !.skip = FALSE]
    ELSE IF grp.removesAnimationWhenNotInView = "false" /\ el.isAnimated
    THEN [unobserve(S, e) EXCEPT !.skip = TRUE]
    ELSE [S EXCEPT !.skip = (elemWasVisible /\ elemStillVisible)
                           \/ (~elemWasVisible /\ elemStillNotVisible)]

\* shouldSkipUpdate that skips an entry whose ratio equals the threshold too
shouldSkipUpdate_SkipsAtThreshold(S, e, entry) ==
    LET el == S.elems[e]
        grp == S.groups[el.group]
        userDidntScroll == S.st.prevScrollY = S.st.scrollY
        userDidntResizeWindow == S.st.prevWindowHeight = S.st.windowHeight
        elemWasVisible == el.isVisible
        elemStillVisible == ~RatioBelow(entry, el.threshold)
        elemStillNotVisible == ~RatioAbove(entry, el.threshold) IN
    IF grp.playsOnLoad
    THEN [unobserve(S, e) EXCEPT !.skip = FALSE]
    ELSE IF grp.removesAnimationWhenNotInView = "false" /\ el.isAnimated
    THEN [unobserve(S, e) EXCEPT !.skip = TRUE]
    ELSE IF userDidntScroll /\ userDidntResizeWindow /\ UpdatedAtThisY(S, e)
    THEN [unobserve(S, e) EXCEPT !.st.unobservedElems = Append(@, e),
                                 !.groups[el.group].upToDateELem = e,
                                 !.skip = TRUE]
    ELSE [S EXCEPT !.skip = (elemWasVisible /\ elemStillVisible)
                           \/ (~elemWasVisible /\ elemStillNotVisible)]

\* eca.animatable.shouldSkipUpdate: the answer is left in S.skip
shouldSkipUpdate(S, e, entry) ==
    LET el == S.elems[e]
        grp == S.groups[el.group]
        userDidntScroll == S.st.prevScrollY = S.st.scrollY
        userDidntResizeWindow == S.st.prevWindowHeight = S.st.windowHeight
        elemWasVisible == el.isVisible
        elemStillVisible == RatioAbove(entry, el.threshold)
        elemStillNotVisible == RatioBelow(entry, el.threshold) IN
    IF grp.playsOnLoad
    THEN [unobserve(S, e) EXCEPT !.skip = FALSE]
    ELSE IF grp.removesAnimationWhenNotInView = "false" /\ el.isAnimated
    THEN [unobserve(S, e) EXCEPT !.skip = TRUE]
    ELSE IF userDidntScroll /\ userDidntResizeWindow /\ UpdatedAtThisY(S, e)
    THEN [unobserve(S, e) EXCEPT !.st.unobservedElems = Append(@, e),
                                 !.groups[el.group].upToDateELem = e,
                                 !.skip = TRUE]
    ELSE [S EXCEPT !.skip = (elemWasVisible /\ elemStillVisible)
                           \/ (~elemWasVisible /\ elemStillNotVisible)]

\* calculateVisibilityIO without the early return for visible members of
\* groups that use animations
calculateVisibilityIO_NoAnimationCase(S, e, entry) ==
    LET el == S.elems[e]
        windowHeight == S.st.windowHeight
        elemPartlyOutsideViewport == entry.top < 0 \/ entry.bottom > windowHeight
        S1 == Log([S EXCEPT !.elems[e].top = entry.top,
                            !.elems[e].bottom = entry.bottom], "read", e, el.group, NULL) IN
    IF entry.isIntersecting
    THEN IF RatioBelowOne(entry)
         THEN (IF RatioAbove(entry, el.threshold) /\ elemPartlyOutsideViewport
               THEN SetIsVisible(S1, e, TRUE)
               ELSE IF RatioBelow(entry, el.threshold) /\ elemPartlyOutsideViewport
               THEN SetIsVisible(S1, e, FALSE)
               ELSE S1)
         ELSE SetIsVisible(S1, e, TRUE)
    ELSE SetIsVisible(S1, e, FALSE)

\* eca.animatable.calculateVisibilityIO
calculateVisibilityIO(S, e, entry) ==
    LET el == S.elems[e]
        windowHeight == S.st.windowHeight
        elemPartlyOutsideViewport == entry.top < 0 \/ entry.bottom > windowHeight
        S1 == Log([S EXCEPT !.elems[e].top = entry.top,
                            !.elems[e].bottom = entry.bottom], "read", e, el.group, NULL) IN
    IF entry.isIntersecting
    THEN IF el.isVisible /\ ~S.groups[el.group].animatesWithTransitions
         THEN S1
         ELSE IF RatioBelowOne(entry)
         THEN (IF RatioAbove(entry, el.threshold) /\ elemPartlyOutsideViewport
               THEN SetIsVisible(S1, e, TRUE)
               ELSE IF RatioBelow(entry, el.threshold) /\ elemPartlyOutsideViewport
               THEN SetIsVisible(S1, e, FALSE)
               ELSE S1)
         ELSE SetIsVisible(S1, e, TRUE)
    ELSE SetIsVisible(S1, e, FALSE)

\* groupSubsets (a Map in insertion order) with elem pushed under its group
PushSubset(subsets, g, e) ==
    IF \E i \in DOMAIN subsets : subsets[i].g = g
    THEN [i \in DOMAIN subsets |->
             IF subsets[i].g = g
             THEN [subsets[i] EXCEPT !.entries = Append(@, e)]
             ELSE subsets[i]]
    ELSE Append(subsets, [g |-> g, entries |-> <<e>>])

\* eca.animatable.saveElemRefForUpdate
saveElemRefForUpdate(S, e) ==
    LET g == S.elems[e].group IN
    [S EXCEPT !.groups[g].upToDateELem = e,
              !.groupSubsets = PushSubset(@, g, e),
              !.st.elemsUpdatedAtY.map = @ \cup {e}]

\* eca.animatable.readEntries
readEntries(S, entries) ==
    LET step(T, entry) ==
            LET T1 == shouldSkipUpdate(T, entry.target, entry) IN
            IF T1.skip THEN T1
            ELSE saveElemRefForUpdate(
                     calculateVisibilityIO(T1, entry.target, entry), entry.target) IN
    ForEach(step, S, entries)

\* eca.animatable.updateEntries
updateEntries(S, subsets) ==
    LET step(T, sub) ==
            LET grp == T.groups[sub.g] IN
            IF grp.isDelaying THEN T
            ELSE IF grp.groupDelay > 0 /\ grp.isVisible THEN delayGroup(T, sub.g)
            ELSE updateMutableProps(
                     ForEach(updateAnimations,
                             Log(T, "pass", sub.g, NULL, grp.nextStaggeredDelay),
                             IF grp.animatesAllOnFirstSight THEN grp.elems
                             ELSE sub.entries),
                     sub.g) IN
    ForEach(step, S, subsets)

(***************************************************************************)
(* Scheduler                                                               *)
(***************************************************************************)
\* the two pairs of callbacks the program hands to requestAnimationUpdate:
\* (readAll, updateAll), and handleIntersect's two arrow functions over the
\* batch's entries
AllCycle == [read |-> "readAll", entries |-> <<>>]
EntriesCycle(entries) == [read |-> "readEntries", entries |-> entries]

\* readCb()
ReadCb(S, cycle) ==
    IF cycle.read = "readAll" THEN readAll(S) ELSE readEntries(S, cycle.entries)

\* the frame callback of a polling cycle
UpdateAllCb(S) == [cb |-> "updateAll", g |-> 0, subsets |-> <<>>]

\* the frame callback of an event-driven cycle
UpdateEntriesCb(S) == [cb |-> "updateEntries", g |-> 0, subsets |-> S.groupSubsets]

\* updateCb, as requestAnimationFrame holds it once readCb has run
UpdateCb(S, cycle) ==
    IF cycle.read = "readAll" THEN UpdateAllCb(S) ELSE UpdateEntriesCb(S)

\* the frame callback without the assignment that clears the flag
CycleWrite_KeepsLock(S, c) ==
    IF c.cb = "updateAll" THEN updateAll(S)
    ELSE IF Len(c.subsets) > 0 THEN updateEntries(S, c.subsets)
    ELSE S

\* the frame callback requestAnimationUpdate registers: updateCb, then unlock
CycleWrite(S, c) ==
    LET S1 == IF c.cb = "updateAll" THEN updateAll(S)
              ELSE IF Len(c.subsets) > 0 THEN updateEntries(S, c.subsets)
              ELSE S IN
    [S1 EXCEPT !.st.updating = FALSE]

\* requestAnimationUpdate with updateCb run at once instead of in a frame
requestAnimationUpdate_WritesAtOnce(S, cycle) ==
    IF ~S.st.updating
    THEN LET S1 == [S EXCEPT !.st.updating = TRUE]
             S2 == ReadCb(S1, cycle) IN
         CycleWrite(S2, UpdateCb(S2, cycle))
    ELSE S

\* requestAnimationUpdate without the test of eca.state.updating
requestAnimationUpdate_NoLock(S, cycle) ==
    LET S1 == [S EXCEPT !.st.updating = TRUE]
        S2 == ReadCb(S1, cycle) IN
    [S2 EXCEPT !.rafQueue = Append(@, UpdateCb(S2, cycle))]

\* eca.animatable.requestAnimationUpdate(readCb, updateCb)
requestAnimationUpdate(S, cycle) ==
    IF ~S.st.updating
    THEN LET S1 == [S EXCEPT !.st.updating = TRUE]
             S2 == ReadCb(S1, cycle) IN
         [S2 EXCEPT !.rafQueue = Append(@, UpdateCb(S2, cycle))]
    ELSE S

\* eca.animatable.handleIntersect
handleIntersect(S, entries) ==
    LET scrollY == S.st.scrollY
        windowHeight == S.st.windowHeight
        userHasScrolled == S.st.prevScrollY # scrollY
        S1 == IF userHasScrolled
              THEN [S EXCEPT !.st.elemsUpdatedAtY = [y |-> scrollY, map |-> {}]]
              ELSE S
        S2 == requestAnimationUpdate([S1 EXCEPT !.groupSubsets = <<>>],
                                     EntriesCycle(entries)) IN
    [S2 EXCEPT !.st.prevScrollY = scrollY,
               !.st.prevWindowHeight = windowHeight]

\* eca.animatable.updateScrollY
updateScrollY(S) ==
    IF S.dom.scrollY = S.st.scrollY THEN S
    ELSE [S EXCEPT !.st.prevScrollY = IF @ # NULL THEN S.st.scrollY ELSE NULL,
                   !.st.scrollY = S.dom.scrollY,
                   !.st.elemsUpdatedAtY = [y |-> NULL, map |-> {}]]

\* reobserveElems that empties the list without observing its members
reobserveElems_ForgetsMembers(S) == [S EXCEPT !.st.unobservedElems = <<>>]

\* reobserveElems
reobserveElems(S) ==
    [ForEach(observe, S, S.st.unobservedElems) EXCEPT !.st.unobservedElems = <<>>]

\* ecaHandleNewScrollY
ecaHandleNewScrollY(S) == reobserveElems(updateScrollY(S))

(***************************************************************************)
(* Resize                                                                  *)
(***************************************************************************)
\* the while loop of correctThreshold: the largest i with i/4 <= win/height
RECURSIVE NextSmallest(_, _, _)
NextSmallest(i, windowHeight, elemHeight) ==
    IF 4 * windowHeight < i * elemHeight
    THEN NextSmallest(i - 1, windowHeight, elemHeight)
    ELSE i

\* correctThreshold that takes the next smallest threshold even when the
\* original threshold is smaller
correctThreshold_IgnoresOriginal(S, e) ==
    LET el == S.elems[e]
        windowHeight == S.st.windowHeight
        elemHeight == getBoundingClientRect(S, e).height IN
    IF el.originalThreshold = 0 THEN S
    ELSE IF elemHeight > windowHeight
    THEN [S EXCEPT !.elems[e].threshold = NextSmallest(4, windowHeight, elemHeight)]
    ELSE [S EXCEPT !.elems[e].threshold = el.originalThreshold]

\* eca.animatable.correctThreshold
correctThreshold(S, e) ==
    LET el == S.elems[e]
        windowHeight == S.st.windowHeight
        elemHeight == getBoundingClientRect(S, e).height IN
    IF el.originalThreshold = 0 THEN S
    ELSE IF elemHeight > windowHeight
    THEN LET i == NextSmallest(4, windowHeight, elemHeight) IN
         [S EXCEPT !.elems[e].threshold =
              IF i <= el.originalThreshold THEN i ELSE el.originalThreshold]
    ELSE [S EXCEPT !.elems[e].threshold = el.originalThreshold]

\* ecaHandleResize
ecaHandleResize(S) ==
    LET S1 == [S EXCEPT !.st.prevWindowHeight = S.st.windowHeight,
                        !.st.windowHeight = S.dom.clientHeight]
        S2 == ForEach(correctThreshold, S1, [e \in 1..Len(S1.elems) |-> e]) IN
    IF S.useScroll THEN requestAnimationUpdate(S2, AllCycle) ELSE S2

\* ecaHandleScrollAnimations
ecaHandleScrollAnimations(S) == requestAnimationUpdate(S, AllCycle)

(***************************************************************************)
(* Throttled handlers                                                      *)
(***************************************************************************)
\* eca.globals.throttleLimResize / throttleLimScroll: the html element's
\* data-eca-throttle-resize / data-eca-throttle-scroll in ms, 0 when absent
throttleLim(page, name) == IF name \in DOMAIN page THEN page[name] ELSE 0

\* eca.helpers.throttle: the closure's variables (limit 0: the handler is
\* registered as it is, no closure is made)
throttle(limit) == [limit |-> limit, inThrottle |-> FALSE, event |-> FALSE]

\* fn, the handler the closure named name wraps
ThrottledFn(S, name) ==
    IF name = "resize" THEN ecaHandleResize(S) ELSE ecaHandleScrollAnimations(S)

\* throttledHandler
throttledHandler(S, name) ==
    IF ~S.throttles[name].inThrottle
    THEN [ThrottledFn(S, name) EXCEPT !.throttles[name].event = FALSE,
                                      !.throttles[name].inThrottle = TRUE]
    ELSE [S EXCEPT !.throttles[name].event = TRUE]

\* the listener registered for the event: throttle(fn, limit) when a limit
\* is set, fn otherwise
Listener(S, name) ==
    IF S.throttles[name].limit # 0 THEN throttledHandler(S, name)
    ELSE ThrottledFn(S, name)

\* the arrow function throttledHandler hands to setTimeout
ThrottleCallback(S, name) ==
    LET S1 == [S EXCEPT !.throttles[name].inThrottle = FALSE] IN
    IF S.throttles[name].event THEN throttledHandler(S1, name) ELSE S1

(***************************************************************************)
(* Animation frames                                                        *)
(***************************************************************************)
\* one callback of the frame: a cycle's write phase, or the continuation of
\* a group delay
RunCallback(S, c) ==
    IF c.cb = "updateOne" THEN updateOne(S, c.g) ELSE CycleWrite(S, c)

(***************************************************************************)
(* Bootstrap: the page, and the state once every eca.ready callback ran    *)
(***************************************************************************)
\* target.style with nothing set; appended counts the style strings listeners
\* have appended to cssText
NoStyle == [animationDelay |-> NULL, transitionDelay |-> NULL, appended |-> 0]

\* an element that carries no data-eca-* attribute of its own
Member(docTop, height) ==
    [docTop |-> docTop, height |-> height, threshold |-> NULL, delay |-> NoAttr,
     style |-> NoStyle]

\* getOption's results for an element group that sets no option
DefaultOpts ==
    [ stagger |-> 0, staggerFromZero |-> FALSE, groupDelay |-> 0,
      playOnLoad |-> FALSE, reverse |-> FALSE, animateAllOnFirstSight |-> FALSE,
      animateWithTransitions |-> FALSE, thresholdAll |-> NULL, listen |-> NoListen,
      listenOnce |-> FALSE, trackingFn |-> FALSE,
      className |-> "box", animateChars |-> FALSE,
      removeAnimationWhenNotInView |-> "false" ]

RECURSIVE FirstTarget(_, _)
FirstTarget(page, i) ==
    IF i = 1 THEN 1
    ELSE FirstTarget(page, i - 1) + Len(page.groups[i - 1].members)

\* the targets getElementsByClassName finds for group i, in document order
Targets(page, i) ==
    [k \in 1..Len(page.groups[i].members) |-> FirstTarget(page, i) + k - 1]

NumTargets(page) == SeqSum([i \in 1..Len(page.groups) |-> Len(page.groups[i].members)])

GroupOfTarget(page, t) ==
    CHOOSE i \in 1..Len(page.groups) : t \in Range(Targets(page, i))

AttrsOfTarget(page, t) ==
    LET i == GroupOfTarget(page, t) IN page.groups[i].members[t - FirstTarget(page, i) + 1]

\* the options of group i: removeAnimationWhenNotInView is read from the
\* html element only
OptsOf(page, i) ==
    [page.groups[i].opts EXCEPT
        !.removeAnimationWhenNotInView = page.removeAnimationWhenNotInView]

\* classList[0] + (isText ? "-letters" : "") of a group's first element
BaseId(opts) == opts.className \o (IF opts.animateChars THEN "-letters" ELSE "")

\* the groupIds readyElementsForAnimation gives the first n groups of the
\* page: the loop index (from 0) is appended to a name that is already a key
\* of groupsOfAnimatableElems
RECURSIVE GroupIds(_, _)
GroupIds(page, n) ==
    IF n = 0 THEN <<>>
    ELSE LET ids == GroupIds(page, n - 1)
             base == BaseId(OptsOf(page, n)) IN
         Append(ids, IF base \in Range(ids) THEN base \o ToString(n - 1) ELSE base)

\* eca.animatable.readyElementsForAnimation
readyElementsForAnimation(page) ==
    [i \in 1..Len(page.groups) |->
        LET G == NewElemGroup(OptsOf(page, i), Targets(page, i), i,
                              GroupIds(page, Len(page.groups))[i]) IN
        IF G.playsReversed THEN [G EXCEPT !.elems = Reverse(@)] ELSE G]

\* elemGroups.forEach(({elems}) => elems.forEach(observe))
RECURSIVE Flatten(_)
Flatten(ss) == IF ss = <<>> THEN <<>> ELSE Head(ss) \o Flatten(Tail(ss))

\* the page's own eca.ready callback: getElemGroup(groupId).trackingFn = fn
\* for the groups the page tracks (opts.trackingFn)
AssignTrackingFns(page, gs) ==
    [i \in 1..Len(gs) |-> [gs[i] EXCEPT !.trackingFn = page.groups[i].opts.trackingFn]]

\* the state once saveGlobalOptions, readyElementsForAnimation,
\* runInitialAnimations and the listener registrations have run
Bootstrap(page) ==
    LET gs == AssignTrackingFns(page, readyElementsForAnimation(page))
        S0 == [ useScroll |-> page.useScroll,
                groups |-> gs,
                elems |-> [t \in 1..NumTargets(page) |->
                              NewElem(t, AttrsOfTarget(page, t), GroupOfTarget(page, t),
                                      page.groups[GroupOfTarget(page, t)].opts.thresholdAll)],
                st |-> [ windowHeight |-> page.clientHeight,
                         prevWindowHeight |-> page.clientHeight,
                         updating |-> FALSE,
                         groupDelayIds |-> <<>>,
                         scrollY |-> 0,
                         prevScrollY |-> NULL,
                         elemsUpdatedAtY |-> [y |-> NULL, map |-> {}],
                         unobservedElems |-> <<>> ],
                dom |-> [ scrollY |-> 0,
                          scrollStep |-> page.scrollStep,
                          heights |-> page.heights,
                          clientHeight |-> page.clientHeight,
                          console |-> Flatten([i \in 1..Len(gs) |-> addListeners(gs[i]).errors]),
                          els |-> [t \in 1..NumTargets(page) |->
                                      [ docTop |-> AttrsOfTarget(page, t).docTop,
                                        height |-> AttrsOfTarget(page, t).height,
                                        animated |-> FALSE,
                                        listeners |-> addListeners(gs[GroupOfTarget(page, t)]).events,
                                        style |-> AttrsOfTarget(page, t).style ]] ],
                observed |-> IF page.useScroll THEN <<>>
                             ELSE Flatten([i \in 1..Len(gs) |-> gs[i].elems]),
                rafQueue |-> <<>>,
                timers |-> {},
                throttles |-> [ resize |-> throttle(throttleLim(page, "ecaThrottleResize")),
                                scroll |-> throttle(throttleLim(page, "ecaThrottleScroll")) ],
                log |-> <<[ev |-> "load", id |-> 0, val |-> 0, nsd |-> NULL]>>,
                groupSubsets |-> <<>>,
                skip |-> FALSE ] IN
    IF page.useScroll THEN requestAnimationUpdate(S0, AllCycle) ELSE S0

(***************************************************************************)
(* The state machine                                                       *)
(***************************************************************************)
\* the current state as the record the operators above thread through; the
\* history starts over with every task, whose first event names the task and
\* tells (val) whether eca.state.updating was set when it began
Machine(task) ==
    [ useScroll |-> useScroll, groups |-> groups, elems |-> elems, st |-> st,
      dom |-> dom, observed |-> observed, rafQueue |-> rafQueue,
      timers |-> timers, throttles |-> throttles,
      log |-> <<[ev |-> task, id |-> 0, val |-> IF st.updating THEN 1 ELSE 0,
                 nsd |-> NULL]>>,
      groupSubsets |-> <<>>, skip |-> FALSE ]

Commit(S) ==
    /\ useScroll' = S.useScroll
    /\ groups' = S.groups
    /\ elems' = S.elems
    /\ st' = S.st
    /\ dom' = S.dom
    /\ observed' = S.observed
    /\ rafQueue' = S.rafQueue
    /\ timers' = S.timers
    /\ throttles' = S.throttles
    /\ log' = S.log

\* the program starts from the bootstrap of one of the given pages
InitFrom(pages) ==
    \E page \in pages :
        LET S == Bootstrap(page) IN
        /\ useScroll = S.useScroll
        /\ groups = S.groups
        /\ elems = S.elems
        /\ st = S.st
        /\ dom = S.dom
        /\ observed = S.observed
        /\ rafQueue = S.rafQueue
        /\ timers = S.timers
        /\ throttles = S.throttles
        /\ log = S.log

\* a scroll event in polling mode: ecaHandleScrollAnimations, throttled when
\* the page sets a limit
PollScroll(y) ==
    /\ useScroll
    /\ Commit(Listener([Machine("scroll") EXCEPT !.dom.scrollY = y], "scroll"))

\* a scroll event in event-driven mode: ecaHandleNewScrollY
ObservedScroll(y) ==
    /\ ~useScroll
    /\ Commit(ecaHandleNewScrollY([Machine("scroll") EXCEPT !.dom.scrollY = y]))

\* a resize event: reobserveElems (event-driven mode only), then
\* ecaHandleResize, throttled when the page sets a limit
ResizeEvent(S, h) ==
    LET S0 == [S EXCEPT !.dom.clientHeight = h]
        S1 == IF S.useScroll THEN S0 ELSE reobserveElems(S0) IN
    Listener(S1, "resize")

Resize(h) == Commit(ResizeEvent(Machine("resize"), h))

\* the observer delivers a batch: entries for some of its targets, in
\* observation order.  The first batch is the initial notification, which
\* holds an entry for every target observed at bootstrap (no batch has been
\* handled while eca.state.prevScrollY is still unset).
IntersectEvent(S, targets) ==
    LET batch == SelectSeq(S.observed, LAMBDA e : e \in targets)
        entries == [i \in 1..Len(batch) |-> EntryFor(S, batch[i])] IN
    handleIntersect(S, entries)

Intersect(targets) ==
    /\ ~useScroll
    /\ targets # {}
    /\ st.prevScrollY = NULL => targets = Range(observed)
    /\ Commit(IntersectEvent(Machine("intersect"), targets))

\* an animation or transition event reaches a listener addListeners attached
\* to target e (the page's CSS decides which events occur and when)
ListenerFires(e, event) ==
    /\ event \in DOMAIN dom.els[e].listeners
    /\ dom.els[e].style.appended < MaxAppends
    /\ LET S == setStyles(Machine("listener"), e) IN
       Commit(IF groups[elems[e].group].listensOnce
              THEN [S EXCEPT !.dom.els[e].listeners =
                       [x \in DOMAIN @ \ {event} |-> @[x]]]
              ELSE S)

\* a group-delay timer fires
TimerFires(t) ==
    /\ t \in timers
    /\ Commit(TimerCallback([Machine("timer") EXCEPT !.timers = @ \ {t}], t.g))

\* an animation frame: every queued callback runs, in the order queued
AnimationFrame ==
    /\ rafQueue # <<>>
    /\ Commit(ForEach(RunCallback, [Machine("frame") EXCEPT !.rafQueue = <<>>], rafQueue))

Next ==
    \/ \E y \in 0..MaxScrollY : PollScroll(y)
    \/ \E y \in 0..MaxScrollY : ObservedScroll(y)
    \/ \E h \in dom.heights : Resize(h)
    \/ \E targets \in SUBSET Range(observed) : Intersect(targets)
    \/ \E t \in timers : TimerFires(t)
    \/ \E e \in DOMAIN elems : \E event \in DOMAIN dom.els[e].listeners :
           ListenerFires(e, event)
    \/ AnimationFrame

\* a caller of the public API cancels a pending group delay:
\* clearTimeout(eca.groupDelayIds[groupId])
CancelDelay(groupId) ==
    /\ groupId \in DOMAIN st.groupDelayIds
    /\ \E t \in timers : t.id = st.groupDelayIds[groupId]
    /\ Commit([Machine("cancel") EXCEPT
                  !.timers = {t \in @ : t.id # st.groupDelayIds[groupId]}])

\* the timer of a throttled handler expires
ThrottleExpires(name) ==
    /\ throttles[name].inThrottle
    /\ Commit(ThrottleCallback(Machine("throttle"), name))

\* the program on pages that throttle a handler
NextThrottled ==
    \/ Next
    \/ \E name \in DOMAIN throttles : ThrottleExpires(name)

\* the program with callers that cancel group delays
NextWithCallers ==
    \/ Next
    \/ \E groupId \in DOMAIN st.groupDelayIds : CancelDelay(groupId)

(***************************************************************************)
(* Pages                                                                   *)
(***************************************************************************)
\* the stagger multiplier used where one is configured (ms)
StaggerMs == 100

\* an animation-delay a page author wrote into a style attribute (ms)
InlineDelayMs == 77

\* the group delay used where one is configured (ms)
GroupDelayMs == 1000

\* Two groups.  The first has two boxes, one in view at the top of the page
\* and one that a scroll step brings into view while the first leaves above;
\* the second has one box that stays in view, or no member at all (a text
\* group whose text is empty).  The window is 4 high and a resize can make
\* it 2 high in polling mode.
PageMain(us, rm, gd1, all, pol, m2) ==
    [ useScroll |-> us,
      clientHeight |-> 4,
      heights |-> IF us THEN {4, 2} ELSE {4},
      scrollStep |-> 2,
      removeAnimationWhenNotInView |-> rm,
      groups |-> <<
          [ opts |-> [DefaultOpts EXCEPT !.groupDelay = gd1,
                                         !.animateAllOnFirstSight = all],
            members |-> <<Member(0, 2), Member(4, 2)>> ],
          [ opts |-> [DefaultOpts EXCEPT !.playOnLoad = pol],
            members |-> m2 ] >> ]

PagesMain ==
    { PageMain(TRUE, rm, gd1, all, pol, m2) :
        rm \in {"false", "true", "below"}, gd1 \in {0, GroupDelayMs},
        all \in BOOLEAN, pol \in BOOLEAN, m2 \in {<<>>, <<Member(2, 2)>>} }
    \cup
    { PageMain(FALSE, rm, GroupDelayMs, FALSE, FALSE, <<>>) : rm \in {"false", "true"} }
    \cup
    { PageMain(FALSE, "below", 0, TRUE, FALSE, <<>>),
      PageMain(FALSE, "true", 0, FALSE, TRUE, <<Member(2, 2)>>) }

\* One group with a stagger and listeners on its two boxes, the first of
\* which has an inline animation-delay; tr tells whether the group animates
\* with transitions.  The boxes are placed as on the main pages.
PageListen(us, rm, tr, all) ==
    [ useScroll |-> us,
      clientHeight |-> 4,
      heights |-> {4},
      scrollStep |-> 2,
      removeAnimationWhenNotInView |-> rm,
      groups |-> <<
          [ opts |-> [DefaultOpts EXCEPT !.stagger = StaggerMs, !.listen = Listen(<<"start">>),
                                         !.animateWithTransitions = tr,
                                         !.animateAllOnFirstSight = all],
            members |-> << [Member(0, 2) EXCEPT
                               !.style = [NoStyle EXCEPT !.animationDelay = InlineDelayMs]],
                           Member(4, 2) >> ] >> ]

PagesListen ==
    { PageListen(us, rm, tr, all) :
        us \in BOOLEAN, rm \in {"true", "below"}, tr \in BOOLEAN, all \in BOOLEAN }

\* the listening page the other page sets include
ListenPage == PageListen(TRUE, "true", FALSE, FALSE)

Init == InitFrom(PagesMain \cup {ListenPage})

Spec == Init /\ [][Next]_vars

\* an animation frame runs: AnimationFrame is the only step that takes
\* callbacks off the frame queue, and it takes them all
FrameRuns == rafQueue # <<>> /\ rafQueue' = <<>>

\* the same program where the browser keeps running animation frames: a
\* callback handed to requestAnimationFrame is eventually called
SpecFrames == Init /\ [][Next]_vars /\ WF_rafQueue(FrameRuns)

\* the per-element delays used where one is configured: 0ms and 1s
UniqueDelays == {Ms(0), Sec(1)}

\* One group of boxes of height 1 in a window 4 high (2 after a resize in
\* polling mode).  tops places them: <<1, 2, 3>> has all three in view at the
\* top of the page, <<1, 3, 5>> only the first two, the third coming into
\* view with a scroll step that takes the first out above.  Member u (if any) carries
\* data-eca-delay = ud; the second box has an inline animation-delay.
PageStagger(us, rm, M, fz, rev, all, gd, tops, u, ud) ==
    [ useScroll |-> us,
      clientHeight |-> 4,
      heights |-> IF us THEN {4, 2} ELSE {4},
      scrollStep |-> 2,
      removeAnimationWhenNotInView |-> rm,
      groups |-> <<
          [ opts |-> [DefaultOpts EXCEPT !.stagger = M, !.staggerFromZero = fz,
                                         !.reverse = rev, !.groupDelay = gd,
                                         !.animateAllOnFirstSight = all],
            members |-> [k \in 1..Len(tops) |->
                [Member(tops[k], 1) EXCEPT
                    !.delay = IF k = u THEN ud ELSE NoAttr,
                    !.style = IF k = 2
                              THEN [NoStyle EXCEPT !.animationDelay = InlineDelayMs]
                              ELSE NoStyle]] ] >> ]

PagesStagger ==
    { PageStagger(TRUE, rm, StaggerMs, fz, rev, FALSE, 0, tops, u, ud) :
        rm \in {"false", "true"}, fz \in BOOLEAN, rev \in BOOLEAN,
        tops \in {<<1, 2, 3>>, <<1, 3, 5>>}, u \in 0..3, ud \in UniqueDelays }
    \cup
    { PageStagger(TRUE, "true", 0, FALSE, FALSE, all, 0, <<1, 3, 5>>, u, ud) :
        all \in BOOLEAN, u \in 0..3, ud \in UniqueDelays }
    \cup
    { PageStagger(TRUE, "true", StaggerMs, fz, FALSE, TRUE, gd, <<1, 3, 5>>, 2, Ms(0)) :
        fz \in BOOLEAN, gd \in {0, GroupDelayMs} }
    \cup
    { PageStagger(FALSE, rm, StaggerMs, FALSE, rev, FALSE, 0, <<1, 3>>, u, Ms(0)) :
        rm \in {"false", "true"}, rev \in BOOLEAN, u \in {0, 1} }

InitStagger == InitFrom(PagesStagger \cup {ListenPage})

SpecStagger == InitStagger /\ [][Next]_vars

\* One group with a group delay (gd may be 0 too) and two boxes of height 2
\* in a window 4 high.  tops <<0, 4>> has the first box in view at the top of
\* the page, the second coming into view with a scroll step that takes the
\* first out above; <<4, 6>> has both below the fold at load.
PageDelay(us, rm, gd, pol, all, tops) ==
    [ useScroll |-> us,
      clientHeight |-> 4,
      heights |-> IF us THEN {4, 2} ELSE {4},
      scrollStep |-> 2,
      removeAnimationWhenNotInView |-> rm,
      groups |-> <<
          [ opts |-> [DefaultOpts EXCEPT !.groupDelay = gd, !.playOnLoad = pol,
                                         !.animateAllOnFirstSight = all],
            members |-> [k \in 1..Len(tops) |-> Member(tops[k], 2)] ] >> ]

\* what getOption makes of the settings of a boolean option that has a
\* global: every combination of the element's attribute and the global
BooleanSettings ==
    {getOption(own, global, TRUE) : own \in OptionValues, global \in OptionValues}

PagesDelay ==
    { PageDelay(us, rm, gd, pol, all, tops) :
        us \in BOOLEAN, rm \in {"false", "true"}, gd \in {0, GroupDelayMs},
        pol \in BooleanSettings, all \in BooleanSettings,
        tops \in {<<0, 4>>, <<4, 6>>} }

InitDelay == InitFrom(PagesDelay \cup {ListenPage})

SpecDelay == InitDelay /\ [][Next]_vars

\* the page with a group delay the page sets without one include
DelayPage == PageDelay(TRUE, "true", GroupDelayMs, FALSE, FALSE, <<0, 4>>)

InitListen == InitFrom(PagesListen \cup {DelayPage})

SpecListen == InitListen /\ [][Next]_vars

\* One group of boxes of height 2 with data-eca-threshold-all = th (in
\* quarters, NULL when absent) in a window 4 high (2 after a resize in
\* polling mode); a scroll step moves the page by step.  With step 2, tops
\* <<0, 2, 4>> has the first two boxes in view at the top of the page, the
\* third coming into view with a scroll step that takes the first out
\* above; with step 1, tops <<0, 3>> has a scroll step take the first box
\* half out above and bring the second wholly in.
PageExit(us, rm, tr, all, th, step, tops) ==
    [ useScroll |-> us,
      clientHeight |-> 4,
      heights |-> IF us THEN {4, 2} ELSE {4},
      scrollStep |-> step,
      removeAnimationWhenNotInView |-> rm,
      groups |-> <<
          [ opts |-> [DefaultOpts EXCEPT !.animateWithTransitions = tr,
                                         !.animateAllOnFirstSight = all,
                                         !.thresholdAll = th],
            members |-> [k \in 1..Len(tops) |-> Member(tops[k], 2)] ] >> ]

PagesExit ==
    { PageExit(TRUE, rm, tr, all, NULL, 2, <<0, 2, 4>>) :
        rm \in {"true", "below", "above"}, tr \in BOOLEAN, all \in BOOLEAN }
    \cup
    { PageExit(TRUE, rm, tr, FALSE, th, 1, <<0, 3>>) :
        rm \in {"true", "below"}, tr \in BOOLEAN, th \in {2, 4} }
    \cup
    { PageExit(FALSE, rm, FALSE, all, NULL, 2, <<0, 4>>) :
        rm \in {"below", "above"}, all \in BOOLEAN }

\* One box of height h that starts 2 below the top of the page, in a window
\* 4 high (2 after a resize in polling mode), with data-eca-threshold-all =
\* th (in quarters); tr tells whether the group animates with transitions.
\* A box of height 6 is taller than the window, one of height 4 is as tall
\* as the window and taller once the window is resized.
PageTall(us, th, h, tr) ==
    [ useScroll |-> us,
      clientHeight |-> 4,
      heights |-> IF us THEN {4, 2} ELSE {4},
      scrollStep |-> 2,
      removeAnimationWhenNotInView |-> "true",
      groups |-> <<
          [ opts |-> [DefaultOpts EXCEPT !.thresholdAll = th,
                                         !.animateWithTransitions = tr],
            members |-> <<Member(2, h)>> ] >> ]

PagesTall ==
    { PageTall(us, th, 6, FALSE) : us \in BOOLEAN, th \in {2, 4} }
    \cup
    { PageTall(TRUE, th, h, tr) : th \in 0..4, h \in {4, 6}, tr \in BOOLEAN }

\* the heights a resize gives the window on the pages with one sized box
WindowHeights == {0, 1, 2, 3, 4, 5}

\* One box of height h at the top of the page with data-eca-threshold-all =
\* th (in quarters), in polling mode, in a window 4 high that a resize makes
\* 0 to 5 high.
PageSized(th, h) ==
    [ useScroll |-> TRUE,
      clientHeight |-> 4,
      heights |-> WindowHeights,
      scrollStep |-> 2,
      removeAnimationWhenNotInView |-> "true",
      groups |-> <<
          [ opts |-> [DefaultOpts EXCEPT !.thresholdAll = th],
            members |-> <<Member(0, h)>> ] >> ]

PagesSized == { PageSized(th, h) : th \in 0..4, h \in 0..6 }

InitExit == InitFrom(PagesExit \cup PagesTall \cup PagesSized \cup {ListenPage, DelayPage})

SpecExit == InitExit /\ [][Next]_vars

\* the leading class names used where groups are named
ClassNames == {"a", "a2", "a-letters"}

\* Three groups of one box each (for a text group: one letter), the first
\* two in view at the top of the page and the third coming into view with a
\* scroll step, in polling mode.  names gives the leading class of each
\* group's first element, chars tells which carry data-eca-animate-chars,
\* and the first and the third group have the group delay gd.
PageNames(names, chars, gd) ==
    [ useScroll |-> TRUE,
      clientHeight |-> 4,
      heights |-> IF gd = 0 THEN {4, 2} ELSE {4},
      scrollStep |-> 2,
      removeAnimationWhenNotInView |-> "true",
      groups |-> [i \in 1..3 |->
          [ opts |-> [DefaultOpts EXCEPT !.className = names[i],
                                         !.animateChars = chars[i],
                                         !.groupDelay = IF i = 2 THEN 0 ELSE gd],
            members |-> <<Member(2 * (i - 1), 2)>> ]] ]

PagesNames ==
    { PageNames(names, chars, 0) :
        names \in [1..3 -> ClassNames],
        chars \in {<<FALSE, FALSE, FALSE>>, <<FALSE, TRUE, TRUE>>} }
    \cup
    { PageNames(names, <<FALSE, FALSE, FALSE>>, GroupDelayMs) :
        names \in {<<"a2", "a", "a">>, <<"a", "a2", "a-letters">>} }

\* the same three groups watched by the observer
ObservedNamesPage ==
    [PageNames(<<"a", "a", "a-letters">>, <<FALSE, TRUE, FALSE>>, 0)
        EXCEPT !.useScroll = FALSE, !.heights = {4}]

InitNames == InitFrom(PagesNames \cup {ObservedNamesPage, ListenPage})

SpecNames == InitNames /\ [][Next]_vars

\* One group of two boxes 2 high watched by the observer, with
\* data-eca-threshold-all = th (in quarters), in a window 4 high that a
\* resize can make 2 high.  With a scroll step of 1 the second box, which
\* starts 3 below the top of the page, is half in view before the scroll and
\* the first box is half in view after it.
PageObserved(rm, tr, pol, th, step, tops) ==
    [ useScroll |-> FALSE,
      clientHeight |-> 4,
      heights |-> {4, 2},
      scrollStep |-> step,
      removeAnimationWhenNotInView |-> rm,
      groups |-> <<
          [ opts |-> [DefaultOpts EXCEPT !.animateWithTransitions = tr,
                                         !.playOnLoad = pol,
                                         !.thresholdAll = th],
            members |-> [k \in 1..Len(tops) |-> Member(tops[k], 2)] ] >> ]

PagesObserved ==
    { PageObserved(rm, tr, pol, th, 1, <<0, 3>>) :
        rm \in {"false", "true"}, tr \in BOOLEAN, pol \in BOOLEAN,
        th \in {0, 2, 4} }
    \cup
    { PageObserved("true", tr, FALSE, th, 2, <<0, 5>>) :
        tr \in BOOLEAN, th \in {0, 2} }

InitObserved == InitFrom(PagesObserved \cup {ListenPage, DelayPage})

SpecObserved == InitObserved /\ [][Next]_vars

\* the limit used where a handler is throttled (ms)
ThrottleMs == 100

\* One group of one box of height h with data-eca-threshold-all = 1, in a
\* window 4 high that a resize makes 2 high, on a page that throttles the
\* resize handler, the scroll handler, both or none.
PageThrottled(us, h, resizeLim, scrollLim) ==
    [ useScroll |-> us,
      clientHeight |-> 4,
      heights |-> {4, 2},
      scrollStep |-> 2,
      removeAnimationWhenNotInView |-> "true",
      ecaThrottleResize |-> resizeLim,
      ecaThrottleScroll |-> scrollLim,
      groups |-> <<
          [ opts |-> [DefaultOpts EXCEPT !.thresholdAll = 4],
            members |-> <<Member(2, h)>> ] >> ]

PagesThrottled ==
    { PageThrottled(us, h, resizeLim, scrollLim) :
        us \in BOOLEAN, h \in {2, 4},
        resizeLim \in {0, ThrottleMs}, scrollLim \in {0, ThrottleMs} }

InitThrottled == InitFrom(PagesThrottled \cup {ListenPage, DelayPage})

SpecThrottled == InitThrottled /\ [][NextThrottled]_vars

\* the pages used with callers of the public API: one group with a group
\* delay in both modes, with and without removal of animations
PagesCallers ==
    { PageDelay(us, rm, GroupDelayMs, FALSE, FALSE, <<0, 4>>) :
        us \in BOOLEAN, rm \in {"false", "true"} }

InitCallers == InitFrom(PagesCallers \cup {ListenPage})

SpecCallers == InitCallers /\ [][NextWithCallers]_vars

\* the keys the README gives for a listener specification
ListenKeys == {"start", "end", "cancel", "run", "iteration"}

\* the listener specifications used: one key, two keys, and all five
KeyLists ==
    {<<k>> : k \in ListenKeys}
    \cup {<<"start", "end">>, <<"start", "run", "iteration", "end", "cancel">>}

\* One group of two boxes placed as on the main pages, in polling mode, with
\* data-eca-listen = listen; tr tells whether the group animates with
\* transitions and once whether data-eca-listen-once is set.
PageEvents(listen, tr, once) ==
    [ useScroll |-> TRUE,
      clientHeight |-> 4,
      heights |-> {4},
      scrollStep |-> 2,
      removeAnimationWhenNotInView |-> "true",
      groups |-> <<
          [ opts |-> [DefaultOpts EXCEPT !.listen = listen, !.listenOnce = once,
                                         !.animateWithTransitions = tr],
            members |-> <<Member(0, 2), Member(4, 2)>> ] >> ]

PagesEvents ==
    { PageEvents(listen, tr, once) :
        listen \in {NoListen, BadListen} \cup {Listen(keys) : keys \in KeyLists},
        tr \in BOOLEAN, once \in BOOLEAN }

\* One group of two boxes placed as on the main pages, to which the page's
\* script assigns a trackingFn.
PageTracked(us, rm) ==
    [ useScroll |-> us,
      clientHeight |-> 4,
      heights |-> {4},
      scrollStep |-> 2,
      removeAnimationWhenNotInView |-> rm,
      groups |-> <<
          [ opts |-> [DefaultOpts EXCEPT !.trackingFn = TRUE],
            members |-> <<Member(0, 2), Member(4, 2)>> ] >> ]

PagesTracked == { PageTracked(us, rm) : us \in BOOLEAN, rm \in {"false", "true"} }

InitEvents == InitFrom(PagesEvents \cup PagesTracked \cup {DelayPage})

SpecEvents == InitEvents /\ [][Next]_vars

(***************************************************************************)
(* Properties                                                              *)
(***************************************************************************)
Members(g) == Range(groups[g].elems)

LogHas(ev) == \E i \in DOMAIN log : log[i].ev = ev

\* C1: in every reachable state each group's numElemsAnimated is the number
\* of its members whose isAnimated is true, and so lies in 0..(member count)
C1_AnimatedCountIsSumOfFlags ==
    \A g \in DOMAIN groups :
        /\ groups[g].numElemsAnimated =
               Cardinality({e \in Members(g) : elems[e].isAnimated})
        /\ groups[g].numElemsAnimated \in 0..Len(groups[g].elems)

\* a member has just been de-animated while another of its group stays animated
C1_Witness ==
    \E g \in DOMAIN groups :
        /\ groups[g].numElemsAnimated = 1
        /\ Len(groups[g].elems) = 2
        /\ \E i \in DOMAIN log : log[i].ev = "deAnimate" /\ log[i].id \in Members(g)

\* C2: in every reachable state, the one right after construction included
\* and whatever the member count, isFinishedAnimating is true exactly when
\* numElemsAnimated equals the number of members
C2_FinishedIffAllAnimated ==
    \A g \in DOMAIN groups :
        groups[g].isFinishedAnimating <=>
            (groups[g].numElemsAnimated = Len(groups[g].elems))

(***************************************************************************)
(* Delays (the history of the task that ran last)                          *)
(***************************************************************************)
\* the events of the history in which a member was animated
Animations == {j \in DOMAIN log : log[j].ev = "animate"}

\* the "pass" event that opens the per-member pass event j belongs to
PassOf(j) ==
    CHOOSE i \in 1..j : log[i].ev = "pass" /\ \A k \in (i + 1)..j : log[k].ev # "pass"

\* the position of member e in its group's member order
Pos(e) ==
    LET ms == groups[elems[e].group].elems IN CHOOSE p \in DOMAIN ms : ms[p] = e

HasUniqueDelay(e) == elems[e].uniqueDelay # NULL

\* k for animation j of a member without unique delay: its place, in member
\* order, among the members without unique delay animated in the same pass
StaggerRank(j) ==
    Cardinality({k \in Animations :
        /\ PassOf(k) = PassOf(j)
        /\ ~HasUniqueDelay(log[k].id)
        /\ Pos(log[k].id) <= Pos(log[j].id)})

\* the group a history event about member e concerns
GroupOf(j) == groups[elems[log[j].id].group]

\* C3: in a group with stagger multiplier M > 0, the k-th member without
\* unique delay animated in a pass (k from 1, in member order) is assigned
\* k*M, or (k-1)*M with stagger-from-zero
C3_KthStaggeredGetsKTimesM ==
    \A j \in Animations :
        (~HasUniqueDelay(log[j].id) /\ GroupOf(j).delayMultiplier > 0)
        => log[j].val = GroupOf(j).delayMultiplier *
               (IF GroupOf(j).staggersFromZero THEN StaggerRank(j) - 1
                ELSE StaggerRank(j))

\* C4: a member with a unique delay is animated with exactly that delay and
\* leaves the group's stagger counter as it found it
C4_UniqueDelayKeepsCounter ==
    \A j \in Animations :
        HasUniqueDelay(log[j].id)
        => /\ log[j].val = elems[log[j].id].uniqueDelay
           /\ log[j].nsd = log[j - 1].nsd

\* C5: the stagger counter is unset when a pass begins, and the first member
\* without unique delay animated in the pass gets M, or 0 with
\* stagger-from-zero
C5_StaggerRestartsEveryPass ==
    /\ \A i \in DOMAIN log : log[i].ev = "pass" => log[i].nsd = NULL
    /\ \A j \in Animations :
           (/\ ~HasUniqueDelay(log[j].id)
            /\ GroupOf(j).delayMultiplier > 0
            /\ \A k \in Animations :
                   (PassOf(k) = PassOf(j) /\ k < j) => HasUniqueDelay(log[k].id))
           => log[j].val = IF GroupOf(j).staggersFromZero THEN 0
                           ELSE GroupOf(j).delayMultiplier

\* the delay the priority order gives animation j: the unique delay, else the
\* stagger counter as the animation found it, else the first stagger value,
\* else none
PriorityDelay(j) ==
    IF HasUniqueDelay(log[j].id) THEN elems[log[j].id].uniqueDelay
    ELSE IF log[j - 1].nsd # NULL THEN log[j - 1].nsd
    ELSE IF GroupOf(j).delayMultiplier # 0
    THEN (IF GroupOf(j).staggersFromZero THEN 0 ELSE GroupOf(j).delayMultiplier)
    ELSE NULL

\* the events of the task now ending that concern member e
EventsOn(e) == {j \in DOMAIN log' : log'[j].ev \in {"animate", "deAnimate"} /\ log'[j].id = e}

\* C6: the delay written with an animation follows the priority order, and a
\* member animated with no delay keeps the inline style it had
C6_DelayFollowsPriority ==
    /\ [](\A j \in Animations : log[j].val = PriorityDelay(j))
    /\ [][\A e \in DOMAIN elems :
             (\E j \in EventsOn(e) : log'[j].ev = "animate" /\ log'[j].val = NULL
                                     /\ EventsOn(e) = {j})
             => dom'.els[e].style = dom.els[e].style]_vars

\* a member with an inline animation-delay was animated with no delay, in
\* a pass that also animated a member with a unique delay
C6_Witness ==
    \E j, k \in Animations :
        /\ log[j].val = NULL
        /\ elems[log[j].id].originalInlineStyles.animationDelay = InlineDelayMs
        /\ dom.els[log[j].id].style.animationDelay = InlineDelayMs
        /\ HasUniqueDelay(log[k].id) /\ log[k].val = elems[log[k].id].uniqueDelay
        /\ PassOf(k) = PassOf(j)

(***************************************************************************)
(* Scheduling (the history of the task that ran last, and single steps)    *)
(***************************************************************************)
Triggers == {"load", "scroll", "resize", "intersect"}

Reads == {j \in DOMAIN log : log[j].ev = "read"}

Writes == {j \in DOMAIN log : log[j].ev \in {"animate", "deAnimate"}}

\* the frame callbacks that are the write phase of a cycle
CycleCallbacks(q) == {i \in DOMAIN q : q[i].cb \in {"updateAll", "updateEntries"}}

\* C7: reads and writes never share a task: a trigger (and a timer) only
\* reads, an animation frame only writes; and the trigger that starts a
\* polling cycle reads every member of every eligible group, so all of the
\* cycle's reads precede all of its writes
C7_ReadsBeforeWrites ==
    /\ log[1].ev # "frame" => Writes = {}
    /\ log[1].ev = "frame" => Reads = {}
    /\ \A w \in Writes : \A r \in Reads : r < w
    /\ (useScroll /\ log[1].ev \in Triggers /\ log[1].val = 0)
       => /\ CycleCallbacks(rafQueue) # {}
          /\ \A g \in DOMAIN groups : \A e \in Members(g) :
                 ((groups[g].removesAnimationWhenNotInView # "false"
                   \/ ~groups[g].isFinishedAnimating) /\ ~groups[g].isDelaying)
                 => \E r \in Reads : log[r].id = e

\* a frame wrote to members of two groups whose geometry the cycle's trigger
\* had read
C7_Witness ==
    /\ log[1].ev = "frame"
    /\ \E v, w \in Writes : elems[log[v].id].group # elems[log[w].id].group
    /\ \A w \in Writes : elems[log[w].id].top # NULL

\* C8: a trigger that finds eca.state.updating set reads nothing and leaves
\* the frame queue as it is; and at most one cycle's write phase is ever
\* queued, only while the flag is set
C8_OneCycleInFlight ==
    /\ [](/\ Cardinality(CycleCallbacks(rafQueue)) <= 1
          /\ CycleCallbacks(rafQueue) # {} => st.updating)
    /\ [][(st.updating /\ log'[1].ev \in Triggers)
          => /\ rafQueue' = rafQueue
             /\ \A j \in DOMAIN log' : log'[j].ev # "read"
             /\ elems' = elems]_vars

\* an observer batch arrived while a cycle was in flight, and was dropped
C8_Witness ==
    /\ ~useScroll
    /\ log = <<[ev |-> "intersect", id |-> 0, val |-> 1, nsd |-> NULL]>>
    /\ Cardinality(CycleCallbacks(rafQueue)) = 1
    /\ \E e \in DOMAIN elems : elems[e].isVisible /\ ~elems[e].isAnimated

\* the first event of the history that is a pass over, or the delaying of,
\* group g (0 if there is none)
FirstProcessing(h, g) ==
    LET is == {i \in DOMAIN h : h[i].ev \in {"pass", "delayGroup"} /\ h[i].id = g} IN
    IF is = {} THEN 0 ELSE CHOOSE i \in is : \A k \in is : i <= k

\* C9: a write phase that comes to a visible group with a positive group
\* delay puts it into the delaying state and animates none of its members;
\* and no step taken while a group is delaying changes a member's
\* isAnimated, its animated class or its inline style
C9_DelayingGroupIsFrozen ==
    /\ [][\A g \in DOMAIN groups :
            (/\ groups[g].groupDelay > 0 /\ groups[g].isVisible /\ ~groups[g].isDelaying
             /\ FirstProcessing(log', g) # 0)
            => /\ log'[FirstProcessing(log', g)].ev = "delayGroup"
               /\ groups'[g].isDelaying
               /\ \A j \in DOMAIN log' :
                      (log'[j].ev \in {"animate", "deAnimate"}
                       /\ j > FirstProcessing(log', g))
                      => log'[j].id \notin Members(g)]_vars
    /\ [][\A g \in DOMAIN groups : groups[g].isDelaying
            => \A e \in Members(g) :
                   /\ elems'[e].isAnimated = elems[e].isAnimated
                   /\ dom'.els[e].animated = dom.els[e].animated
                   /\ dom'.els[e].style = dom.els[e].style]_vars

\* a frame has put a group with a visible, un-animated member into the
\* delaying state
C9_Witness ==
    /\ log[1].ev = "frame"
    /\ \E g \in DOMAIN groups :
           /\ groups[g].isDelaying
           /\ \E i \in DOMAIN log : log[i].ev = "delayGroup" /\ log[i].id = g
           /\ \E e \in Members(g) : elems[e].isVisible /\ ~elems[e].isAnimated

\* C10: the frame that runs updateOne for a group whose timer has fired, the
\* group being visible, animates the group's visible un-animated members
\* and does not put the group into the delaying state again
C10_NoSecondDelay ==
    [][\A g \in DOMAIN groups :
          (/\ \E i \in DOMAIN rafQueue : rafQueue[i].cb = "updateOne" /\ rafQueue[i].g = g
           /\ groups[g].isVisible
           /\ log'[1].ev = "frame")
          => /\ ~groups'[g].isDelaying
             /\ \A e \in Members(g) :
                    (elems[e].isVisible /\ ~elems[e].isAnimated) => elems'[e].isAnimated]_vars

\* C10 in polling mode
C10_NoSecondDelayPolling ==
    [][\A g \in DOMAIN groups :
          (/\ useScroll
           /\ \E i \in DOMAIN rafQueue : rafQueue[i].cb = "updateOne" /\ rafQueue[i].g = g
           /\ groups[g].isVisible
           /\ log'[1].ev = "frame")
          => /\ ~groups'[g].isDelaying
             /\ \A e \in Members(g) :
                    (elems[e].isVisible /\ ~elems[e].isAnimated) => elems'[e].isAnimated]_vars

(***************************************************************************)
(* Group delay                                                             *)
(***************************************************************************)
\* the frame queue holds the updateOne a fired delay timer of group g left
UpdateOnePending(g) ==
    \E i \in DOMAIN rafQueue : rafQueue[i].cb = "updateOne" /\ rafQueue[i].g = g

\* the members of group g animated by the task now ending
AnimatedNow(g) ==
    {log'[j].id : j \in {i \in DOMAIN log' : log'[i].ev = "animate"
                                             /\ log'[i].id \in Members(g)}}

PassedNow(g) == \E i \in DOMAIN log' : log'[i].ev = "pass" /\ log'[i].id = g

\* C12: a frame in which a group had a pass and that ends with no member
\* animated leaves groupDelay at the configured value (which
\* originalGroupDelay keeps); groupDelay is raised from 0 only by such a
\* frame; and while a member is animated groupDelay is 0 and the group is
\* not delaying
C12_DelayRearmedAtZero ==
    /\ [](\A g \in DOMAIN groups :
            groups[g].numElemsAnimated > 0
            => groups[g].groupDelay = 0 /\ ~groups[g].isDelaying)
    /\ [][\A g \in DOMAIN groups :
            /\ groups'[g].originalGroupDelay = groups[g].originalGroupDelay
            /\ (PassedNow(g) /\ groups'[g].numElemsAnimated = 0)
               => groups'[g].groupDelay = groups[g].originalGroupDelay
            /\ (groups[g].groupDelay = 0 /\ groups'[g].groupDelay > 0)
               => PassedNow(g) /\ groups'[g].numElemsAnimated = 0]_vars

\* the last animated member of a group with a group delay was de-animated
\* and the delay is armed again
C12_Witness ==
    /\ log[1].ev = "frame"
    /\ \E g \in DOMAIN groups :
           /\ groups[g].numElemsAnimated = 0
           /\ groups[g].groupDelay = GroupDelayMs
           /\ \E i \in DOMAIN log : log[i].ev = "deAnimate" /\ log[i].id \in Members(g)

(***************************************************************************)
(* Options                                                                 *)
(***************************************************************************)
\* C13: in every state, a group that plays on load does not animate all on
\* first sight
C13_PlayOnLoadExcludesAnimateAll ==
    \A g \in DOMAIN groups :
        groups[g].playsOnLoad => ~groups[g].animatesAllOnFirstSight

\* a play-on-load group has had a pass that animated a member that is not
\* visible, and is still not animate-all
C13_Witness ==
    \E g \in DOMAIN groups :
        /\ groups[g].playsOnLoad /\ ~groups[g].animatesAllOnFirstSight
        /\ \E j \in Animations : log[j].id \in Members(g) /\ ~elems[log[j].id].isVisible

(***************************************************************************)
(* Inline styles                                                           *)
(***************************************************************************)
\* the last event of the history that animated or de-animated member e (0 if
\* there is none)
LastEventOn(e) ==
    LET is == {j \in DOMAIN log : log[j].ev \in {"animate", "deAnimate"} /\ log[j].id = e} IN
    IF is = {} THEN 0 ELSE CHOOSE i \in is : \A k \in is : k <= i

\* C14: a member whose last event was its de-animation has the inline style
\* captured at construction and neither the animated class nor isAnimated
C14_DeAnimateRestoresStyle ==
    \A e \in DOMAIN elems :
        (LastEventOn(e) # 0 /\ log[LastEventOn(e)].ev = "deAnimate")
        => /\ dom.els[e].style = elems[e].originalInlineStyles
           /\ ~dom.els[e].animated
           /\ ~elems[e].isAnimated

\* a member that had an inline animation-delay, a stagger delay written over
\* it and a listener's style string appended was de-animated
C14_Witness ==
    \E e \in DOMAIN elems :
        /\ LastEventOn(e) # 0 /\ log[LastEventOn(e)].ev = "deAnimate"
        /\ log[LastEventOn(e)].val = MaxAppends
        /\ elems[e].originalInlineStyles.animationDelay = InlineDelayMs
        /\ groups[elems[e].group].delayMultiplier > 0
        /\ dom.els[e].style = elems[e].originalInlineStyles

(***************************************************************************)
(* Removal of animations                                                   *)
(***************************************************************************)
\* the group of member e neither removes animations nor lets its members
\* replay: remove-on-exit is off, or the group plays on load
PlaysOnce(e) ==
    \/ groups[elems[e].group].removesAnimationWhenNotInView = "false"
    \/ groups[elems[e].group].playsOnLoad

\* C15: with remove-on-exit off, or in a play-on-load group, no task
\* de-animates a member, and a member that is animated stays animated
C15_AnimatedForGood ==
    /\ [](\A j \in DOMAIN log : log[j].ev = "deAnimate" => ~PlaysOnce(log[j].id))
    /\ [][\A e \in DOMAIN elems :
            (PlaysOnce(e) /\ elems[e].isAnimated)
            => elems'[e].isAnimated /\ dom'.els[e].animated]_vars

\* a pass has left an animated member that is out of view animated, in a
\* play-on-load group on a page that removes animations
C15_Witness ==
    /\ log[1].ev = "frame"
    /\ \E e \in DOMAIN elems :
           /\ groups[elems[e].group].playsOnLoad
           /\ groups[elems[e].group].removesAnimationWhenNotInView = "true"
           /\ elems[e].isAnimated /\ ~elems[e].isVisible /\ elems[e].top # NULL
           /\ \E i \in DOMAIN log : log[i].ev = "pass" /\ log[i].id = elems[e].group
           /\ \A j \in Animations : log[j].id # e

(***************************************************************************)
(* Play on load                                                            *)
(***************************************************************************)
\* C16: a task in which a play-on-load group has a per-member pass ends
\* with every member of the group animated, so the first such pass has
\* animated them all; before a pass has run none is animated
C16_PlayOnLoadAnimatesAll ==
    [][\A g \in DOMAIN groups :
          groups[g].playsOnLoad
          => /\ PassedNow(g)
                => \A e \in Members(g) :
                       elems'[e].isAnimated /\ dom'.els[e].animated
             /\ (~PassedNow(g) /\ groups[g].numElemsAnimated = 0)
                => groups'[g].numElemsAnimated = 0]_vars

\* the pass of a play-on-load group has animated a member that is not
\* visible
C16_Witness ==
    /\ log[1].ev = "frame"
    /\ \E g \in DOMAIN groups :
           /\ groups[g].playsOnLoad
           /\ \E i \in DOMAIN log : log[i].ev = "pass" /\ log[i].id = g
           /\ \E j \in Animations :
                  log[j].id \in Members(g) /\ ~elems[log[j].id].isVisible
           /\ \A e \in Members(g) : elems[e].isAnimated

(***************************************************************************)
(* Directional removal                                                     *)
(***************************************************************************)
\* member e has left the viewport in the direction its group removes
\* animations in: it is not visible and is below ("below") or above
\* ("above") the viewport
LeftInDirection(e) ==
    LET rm == groups[elems[e].group].removesAnimationWhenNotInView IN
    /\ ~elems[e].isVisible
    /\ \/ rm = "below" /\ Num(elems[e].bottom) > st.windowHeight
       \/ rm = "above" /\ Num(elems[e].top) < 0

\* the groups C17 is about
Directional(g) ==
    /\ groups[g].removesAnimationWhenNotInView \in {"below", "above"}
    /\ ~groups[g].animatesAllOnFirstSight
    /\ ~groups[g].playsOnLoad

ReadNow(e) == \E i \in DOMAIN log' : log'[i].ev = "read" /\ log'[i].id = e

\* four times the pixels of member e its threshold asks for, less the pixel
\* taken off a threshold of 1
ThresholdPixels4(e) ==
    dom.els[e].height * elems[e].threshold - (IF elems[e].threshold = 4 THEN 4 ELSE 0)

\* member e is in view by more than its threshold
CrossesThreshold(e) ==
    /\ 4 * elems[e].top + ThresholdPixels4(e) < 4 * st.windowHeight
    /\ 4 * elems[e].bottom - ThresholdPixels4(e) > 0

\* C18: in polling mode a read of a visible member of a group that uses
\* animations leaves it visible exactly when top < viewport height and
\* bottom > 0; a read of a member of a group that uses transitions leaves it
\* visible exactly when it is in view by more than its threshold, whether it
\* was visible or not
C18_ExitIgnoresThreshold ==
    [][\A e \in DOMAIN elems :
          (useScroll /\ ReadNow(e))
          => /\ (elems[e].isVisible /\ ~groups[elems[e].group].animatesWithTransitions)
                => (elems'[e].isVisible
                    <=> (elems'[e].top < st'.windowHeight /\ elems'[e].bottom > 0))
             /\ groups[elems[e].group].animatesWithTransitions
                => (elems'[e].isVisible <=> CrossesThreshold(e)')]_vars

\* a read has left visible a member of a group that uses animations which
\* is in view by less than its threshold
C18_Witness ==
    /\ useScroll
    /\ \E i \in DOMAIN log :
           /\ log[i].ev = "read"
           /\ elems[log[i].id].isVisible
           /\ elems[log[i].id].threshold > 0
           /\ ~groups[log[i].val].animatesWithTransitions
           /\ ~CrossesThreshold(log[i].id)

(***************************************************************************)
(* Thresholds of tall members                                              *)
(***************************************************************************)
\* C19: whenever a task has computed the visibility of a member that is
\* taller than the viewport, the member's threshold t is reachable:
\* t * height <= viewport height (t in quarters)
C19_ThresholdReachable ==
    \A i \in DOMAIN log :
        (log[i].ev = "read" /\ dom.els[log[i].id].height > st.windowHeight)
        => elems[log[i].id].threshold * dom.els[log[i].id].height <= 4 * st.windowHeight

\* a resize event leaves every member that is taller than the viewport with
\* a reachable threshold
C19_ThresholdReachableAtResize ==
    [][log'[1].ev = "resize"
       => \A e \in DOMAIN elems :
              dom'.els[e].height > st'.windowHeight
              => elems'[e].threshold * dom'.els[e].height <= 4 * st'.windowHeight]_vars

(***************************************************************************)
(* Animate all on first sight                                              *)
(***************************************************************************)
\* C20: a task in which an animate-all group had a per-member pass ends
\* with all its members animated or none; a pass made while the group is
\* visible leaves them all animated, and a task that de-animates one
\* member of the group de-animates all of them
C20_AllOrNone ==
    [][\A g \in DOMAIN groups :
          (groups[g].animatesAllOnFirstSight /\ PassedNow(g))
          => /\ \/ \A e \in Members(g) : elems'[e].isAnimated
                \/ \A e \in Members(g) : ~elems'[e].isAnimated
             /\ groups'[g].isVisible => \A e \in Members(g) : elems'[e].isAnimated
             /\ (\E j \in DOMAIN log' : log'[j].ev = "deAnimate" /\ log'[j].id \in Members(g))
                => \A e \in Members(g) :
                       elems[e].isAnimated /\ ~elems'[e].isAnimated]_vars

\* a pass has animated a member of an animate-all group that is not itself
\* visible
C20_Witness ==
    /\ log[1].ev = "frame"
    /\ \E j \in Animations :
           /\ GroupOf(j).animatesAllOnFirstSight
           /\ ~elems[log[j].id].isVisible
           /\ \A e \in Members(elems[log[j].id].group) : elems[e].isAnimated

(***************************************************************************)
(* Group ids and the registry of delay timers                              *)
(***************************************************************************)
\* C22: the groups in the registry have pairwise distinct ids
C22_GroupIdsDistinct ==
    \A g, h \in DOMAIN groups : g # h => groups[g].groupId # groups[h].groupId

\* what groupDelayIds holds for group g (nothing before its first delay)
Registered(g) ==
    IF groups[g].groupId \in DOMAIN st.groupDelayIds
    THEN st.groupDelayIds[groups[g].groupId] ELSE NULL

\* C23: while a group's delay timer is pending groupDelayIds maps the
\* group's id to the timer's handle; the step in which the timer fires
\* leaves null there; and every handle the registry holds is the handle of
\* a pending timer
C23_RegistryHoldsPendingTimer ==
    /\ [](\A t \in timers : Registered(t.g) = t.id)
    /\ [](\A k \in DOMAIN st.groupDelayIds :
            st.groupDelayIds[k] # NULL => \E t \in timers : t.id = st.groupDelayIds[k])
    /\ [][\A t \in timers : t \notin timers' => Registered(t.g)' = NULL]_vars

\* C23 on pages whose group ids are pairwise distinct
C23_RegistryWhereIdsDistinct ==
    /\ [](C22_GroupIdsDistinct => \A t \in timers : Registered(t.g) = t.id)
    /\ [](C22_GroupIdsDistinct
          => \A k \in DOMAIN st.groupDelayIds :
                 st.groupDelayIds[k] # NULL
                 => \E t \in timers : t.id = st.groupDelayIds[k])
    /\ [][C22_GroupIdsDistinct
          => \A t \in timers : t \notin timers' => Registered(t.g)' = NULL]_vars

(***************************************************************************)
(* Listener specifications                                                 *)
(***************************************************************************)
\* the data-eca-listen attribute of group g is there and is not JSON
Malformed(g) == groups[g].listen.given /\ ~groups[g].listen.json

\* C24: a group whose listener specification is not valid JSON is in the
\* registry with its members, none of its members has a listener, the
\* console has a diagnostic that names its group id, and no step ever
\* appends a listener's style string to a member's inline style
C24_MalformedListenIsHarmless ==
    /\ [](\A g \in DOMAIN groups :
            Malformed(g)
            => /\ Members(g) # {}
               /\ \A e \in Members(g) : DOMAIN dom.els[e].listeners = {}
               /\ groups[g].groupId \in Range(dom.console))
    /\ [][\A g \in DOMAIN groups :
            Malformed(g)
            => \A e \in Members(g) : dom'.els[e].style.appended = 0]_vars

\* a member of a group with a malformed listener specification was
\* animated and de-animated like any other
C24_Witness ==
    \E g \in DOMAIN groups :
        /\ Malformed(g)
        /\ \E j \in DOMAIN log : log[j].ev = "deAnimate" /\ log[j].id \in Members(g)
        /\ \E e \in Members(g) : elems[e].isAnimated

\* the event name the README gives for key in a group that animates with
\* transitions (tr) or with animations
EventNameOf(key, tr) ==
    IF key = "run" THEN "transitionrun"
    ELSE IF key = "iteration" THEN "animationiteration"
    ELSE (IF tr THEN "transition" ELSE "animation") \o key

\* C25: every key of a listener specification yields exactly one event
\* name that carries the key's style string, and it is the name the README
\* gives (on groups whose listeners stay attached)
C25_EveryKeyYieldsItsEvent ==
    \A g \in DOMAIN groups :
        (groups[g].listen.json /\ ~groups[g].listensOnce)
        => \A e \in Members(g) : \A k \in DOMAIN groups[g].listen.keys :
               LET key == groups[g].listen.keys[k]
                   carrying == {event \in DOMAIN dom.els[e].listeners :
                                   dom.els[e].listeners[event] = key} IN
               carrying = {EventNameOf(key, groups[g].animatesWithTransitions)}

\* C25 for the keys start, end and cancel
C25_StartEndCancelYieldTheirEvent ==
    \A g \in DOMAIN groups :
        (groups[g].listen.json /\ ~groups[g].listensOnce)
        => \A e \in Members(g) : \A k \in DOMAIN groups[g].listen.keys :
               LET key == groups[g].listen.keys[k]
                   carrying == {event \in DOMAIN dom.els[e].listeners :
                                   dom.els[e].listeners[event] = key} IN
               key \in {"start", "end", "cancel"}
               => carrying = {EventNameOf(key, groups[g].animatesWithTransitions)}

(***************************************************************************)
(* trackingFn                                                              *)
(***************************************************************************)
\* the events of the pass that log[i] starts: those up to the next pass or
\* group delay
InPass(i) ==
    {j \in DOMAIN log :
        /\ j > i
        /\ \A k \in (i + 1)..j : log[k].ev \notin {"pass", "delayGroup"}}

\* the members the pass that log[i] starts has animated
AnimatedInPass(i) == {log[j].id : j \in {k \in InPass(i) : log[k].ev = "animate"}}

\* the calls of the group's trackingFn in the pass that log[i] starts
TrackingCalls(i) == {j \in InPass(i) : log[j].ev = "trackingFn" /\ log[j].id = log[i].id}

\* C21: a pass that animates members of a group with a trackingFn calls it
\* exactly once, after those members are animated and with exactly them; a
\* pass that animates none does not call it
C21_TrackingFnCalledOncePerPass ==
    \A i \in DOMAIN log :
        (log[i].ev = "pass" /\ groups[log[i].id].trackingFn)
        => IF AnimatedInPass(i) = {}
           THEN TrackingCalls(i) = {}
           ELSE /\ Cardinality(TrackingCalls(i)) = 1
                /\ \A c \in TrackingCalls(i) :
                       /\ log[c].val = AnimatedInPass(i)
                       /\ \A j \in InPass(i) : log[j].ev = "animate" => j < c

(***************************************************************************)
(* Members that span the viewport                                          *)
(***************************************************************************)
\* member e reaches from the top of the viewport, or above, to its bottom,
\* or below
SpansViewport(e) == elems[e].top <= 0 /\ elems[e].bottom >= st.windowHeight

\* C26: in polling mode a read computes a member that fully spans the
\* viewport visible
C26_SpanningMemberIsVisible ==
    useScroll
    => \A i \in DOMAIN log :
           (log[i].ev = "read" /\ SpansViewport(log[i].id))
           => elems[log[i].id].isVisible

\* C26 for members whose threshold is less than the part of the member the
\* viewport can show
C26_SpanningMemberBelowReach ==
    useScroll
    => \A i \in DOMAIN log :
           (/\ log[i].ev = "read" /\ SpansViewport(log[i].id)
            /\ ThresholdPixels4(log[i].id) < 4 * st.windowHeight)
           => elems[log[i].id].isVisible

(***************************************************************************)
(* Threshold correction                                                    *)
(***************************************************************************)
\* the largest of the five thresholds (in quarters) that is at most t and
\* at most windowHeight / height
LargestReachable(t, height, windowHeight) ==
    LET ok == {q \in 0..4 : q <= t /\ q * height <= 4 * windowHeight} IN
    CHOOSE q \in ok : \A r \in ok : r <= q

\* C27: a resize event, which runs correctThreshold on every member, leaves
\* originalThreshold as it was and threshold at the largest threshold that
\* is at most originalThreshold and viewport height / height when the member
\* is taller than the viewport, and at originalThreshold otherwise
C27_CorrectThresholdIsLargestReachable ==
    [][log'[1].ev = "resize"
       => \A e \in DOMAIN elems :
              /\ elems'[e].originalThreshold = elems[e].originalThreshold
              /\ elems'[e].threshold =
                     IF dom'.els[e].height > st'.windowHeight
                     THEN LargestReachable(elems[e].originalThreshold,
                                           dom'.els[e].height, st'.windowHeight)
                     ELSE elems[e].originalThreshold]_vars

\* a resize has corrected a threshold to a value between 0 and the original
\* one, and another has left a smaller original threshold alone
C27_Witness ==
    /\ log[1].ev = "resize"
    /\ \E e \in DOMAIN elems :
           /\ dom.els[e].height > st.windowHeight
           /\ \/ 0 < elems[e].threshold /\ elems[e].threshold < elems[e].originalThreshold
              \/ /\ elems[e].threshold = elems[e].originalThreshold
                 /\ 0 < elems[e].threshold
                 /\ (elems[e].threshold + 1) * dom.els[e].height <= 4 * st.windowHeight

(***************************************************************************)
(* Cancelled group delays                                                  *)
(***************************************************************************)
\* C28: a group is in the delaying state exactly while its delay timer is
\* pending
C28_DelayingIffTimerPending ==
    \A g \in DOMAIN groups : groups[g].isDelaying <=> \E t \in timers : t.g = g

(***************************************************************************)
(* Resize before read                                                      *)
(***************************************************************************)
\* the threshold correctThreshold gives member e in the viewport as it is
Refreshed(e) ==
    elems[e].threshold =
        IF dom.els[e].height > dom.clientHeight
        THEN LargestReachable(elems[e].originalThreshold, dom.els[e].height,
                              dom.clientHeight)
        ELSE elems[e].originalThreshold

\* the height of the viewport when the pages are loaded
LoadHeight == 4

\* the viewport is not the one the page was loaded in: a resize happened
ResizedSinceLoad == dom.clientHeight # LoadHeight

\* C29: every geometry read that follows a resize uses the viewport height
\* of that resize and thresholds corrected for it
C29_ReadsFollowRefresh ==
    \A i \in 1..Len(log) :
        (log[i].ev = "read" /\ ResizedSinceLoad)
        => /\ st.windowHeight = dom.clientHeight
           /\ Refreshed(log[i].id)

\* the same where the page sets no limit for the resize handler
C29_ReadsFollowRefreshUnthrottled ==
    throttles.resize.limit = 0 => C29_ReadsFollowRefresh

(***************************************************************************)
(* Dropped observer batches                                                *)
(***************************************************************************)
\* the step is an observer batch that arrived while a cycle was in flight
DroppedBatch == log'[1].ev = "intersect" /\ log'[1].val = 1

\* C30: a batch that arrives while a cycle is in flight changes no member,
\* no group and nothing of the scroll bookkeeping
C30_DroppedBatchLeavesNoTrace ==
    [][DroppedBatch
       => /\ elems' = elems
          /\ groups' = groups
          /\ st'.prevScrollY = st.prevScrollY
          /\ st'.prevWindowHeight = st.prevWindowHeight
          /\ st'.elemsUpdatedAtY = st.elemsUpdatedAtY]_vars

\* the same for the members and the groups alone
C30_DroppedBatchLeavesMembersAndGroups ==
    [][DroppedBatch => (elems' = elems /\ groups' = groups)]_vars

(***************************************************************************)
(* Resize between the read phase and the write phase                       *)
(***************************************************************************)
\* the members that are animated once the callbacks queued in S have run
AnimatedAfterFrame(S) ==
    LET T == ForEach(RunCallback, [S EXCEPT !.rafQueue = <<>>], S.rafQueue) IN
    {e \in DOMAIN T.elems : T.elems[e].isAnimated}

\* C31: a resize event that arrives between a cycle's read phase and its
\* write phase does not change which members the write phase animates or
\* de-animates
C31_WriteUsesWhatReadSampled ==
    st.updating
    => \A h \in dom.heights :
           AnimatedAfterFrame(ResizeEvent(Machine("resize"), h))
               = AnimatedAfterFrame(Machine("frame"))

\* the same for the groups that remove animations wherever the member left
C31_WriteUsesWhatReadSampledUnlessBelow ==
    (\A g \in DOMAIN groups : groups[g].removesAnimationWhenNotInView # "below")
    => C31_WriteUsesWhatReadSampled

(***************************************************************************)
(* Entries the event-driven strategy skips                                 *)
(***************************************************************************)
\* what a read may change of a member
Sampled(S, e) ==
    [top |-> S.elems[e].top, bottom |-> S.elems[e].bottom,
     isVisible |-> S.elems[e].isVisible, isAnimated |-> S.elems[e].isAnimated]

\* neither the scroll offset nor the viewport height changed since the
\* previous batch, and member e was processed at this scroll offset
SeenAtThisOffset(e) ==
    /\ ~useScroll
    /\ ~st.updating
    /\ st.prevScrollY = st.scrollY
    /\ st.prevWindowHeight = st.windowHeight
    /\ st.elemsUpdatedAtY.y = st.scrollY
    /\ e \in st.elemsUpdatedAtY.map

\* the batches the observer can deliver now that hold an entry for member e
BatchesWith(e) ==
    {targets \in SUBSET Range(observed) :
        e \in targets /\ (st.prevScrollY = NULL => targets = Range(observed))}

\* C32: with the scroll offset and the viewport height unchanged since the
\* previous batch, an entry for a member already processed at this offset
\* leaves its top, bottom, isVisible and isAnimated as they are, and the
\* member is unobserved
C32_SeenEntryIsSkipped ==
    \A e \in DOMAIN elems :
        SeenAtThisOffset(e)
        => \A targets \in BatchesWith(e) :
               LET S == IntersectEvent(Machine("intersect"), targets) IN
               /\ Sampled(S, e) = Sampled(Machine("intersect"), e)
               /\ e \notin Range(S.observed)
               /\ \A i \in DOMAIN S.log : ~(S.log[i].ev = "read" /\ S.log[i].id = e)

\* a batch has just unobserved a member it had processed at this offset
C32_Witness ==
    /\ ~useScroll
    /\ log[1].ev = "intersect" /\ log[1].val = 0
    /\ st.unobservedElems # <<>>
    /\ \E e \in Range(st.unobservedElems) :
           e \in st.elemsUpdatedAtY.map /\ e \notin Range(observed)

\* the entry the observer reports for member e now does not cross the
\* member's threshold: visible and ratio above it, or not visible and below
NoCrossing(e) ==
    LET entry == EntryFor(Machine("intersect"), e) IN
    \/ elems[e].isVisible /\ RatioAbove(entry, elems[e].threshold)
    \/ ~elems[e].isVisible /\ RatioBelow(entry, elems[e].threshold)

\* an entry for member e passes the guards shouldSkipUpdate tests first
PassesEarlierGuards(e) ==
    /\ ~groups[elems[e].group].playsOnLoad
    /\ ~(groups[elems[e].group].removesAnimationWhenNotInView = "false"
         /\ elems[e].isAnimated)
    /\ ~(/\ st.prevScrollY = st.scrollY
         /\ st.prevWindowHeight = st.windowHeight
         /\ st.elemsUpdatedAtY.y = st.scrollY
         /\ e \in st.elemsUpdatedAtY.map)

\* member e is in the update set of the cycle S started
InUpdateSet(S, e) ==
    \E i \in DOMAIN S.groupSubsets : e \in Range(S.groupSubsets[i].entries)

\* the batch that led to S read member e
WasRead(S, e) == \E i \in DOMAIN S.log : S.log[i].ev = "read" /\ S.log[i].id = e

\* the batch that led to S skipped the entry of member e
WasSkipped(S, e) ==
    /\ ~WasRead(S, e)
    /\ ~InUpdateSet(S, e)
    /\ S.elems[e].isVisible = elems[e].isVisible

\* C33 as stated: every entry that does not cross the threshold is skipped,
\* and every other entry that passes the earlier guards is processed
C33_NoCrossingIsSkipped ==
    (~useScroll /\ ~st.updating)
    => \A e \in Range(observed) : \A targets \in BatchesWith(e) :
           LET S == IntersectEvent(Machine("intersect"), targets) IN
           /\ NoCrossing(e) => WasSkipped(S, e)
           /\ (~NoCrossing(e) /\ PassesEarlierGuards(e))
              => (WasRead(S, e) /\ InUpdateSet(S, e))

\* C33: an entry that passes the earlier guards is skipped exactly when it
\* does not cross the member's threshold, and is processed otherwise
C33_NoCrossingIsSkippedPastGuards ==
    (~useScroll /\ ~st.updating)
    => \A e \in Range(observed) : \A targets \in BatchesWith(e) :
           LET S == IntersectEvent(Machine("intersect"), targets) IN
           PassesEarlierGuards(e)
           => /\ NoCrossing(e) => WasSkipped(S, e)
              /\ ~NoCrossing(e) => (WasRead(S, e) /\ InUpdateSet(S, e))

\* after an earlier batch the observer can deliver one in which the entry of
\* one member does not cross its threshold and is skipped, and the entry of
\* another member crosses it and is processed
C33_Witness ==
    /\ ~useScroll /\ ~st.updating
    /\ st.prevScrollY # NULL
    /\ LET S == IntersectEvent(Machine("intersect"), Range(observed)) IN
       \E e, f \in Range(observed) :
           /\ PassesEarlierGuards(e) /\ NoCrossing(e) /\ WasSkipped(S, e)
           /\ PassesEarlierGuards(f) /\ ~NoCrossing(f)
           /\ WasRead(S, f) /\ InUpdateSet(S, f)

(***************************************************************************)
(* Visible members of groups that use animations                           *)
(***************************************************************************)
\* member e is visible and its group uses animations, in event-driven mode
VisibleWithAnimations(e) ==
    /\ ~useScroll
    /\ elems[e].isVisible
    /\ ~groups[elems[e].group].animatesWithTransitions

\* entry.isIntersecting of the entry the observer reports for member e now
StillIntersecting(e) == EntryFor(Machine("intersect"), e).isIntersecting

\* C34: in event-driven mode a visible member of a group that uses
\* animations stays visible on every processed entry that is still
\* intersecting and becomes not visible only on a processed entry that is
\* not intersecting at all
C34_VisibleUntilNotIntersecting ==
    /\ [](\A e \in Range(observed) :
              (VisibleWithAnimations(e) /\ ~st.updating)
              => \A targets \in BatchesWith(e) :
                     LET S == IntersectEvent(Machine("intersect"), targets) IN
                     /\ (WasRead(S, e) /\ StillIntersecting(e)) => S.elems[e].isVisible
                     /\ ~S.elems[e].isVisible => (WasRead(S, e) /\ ~StillIntersecting(e)))
    /\ [][\A e \in DOMAIN elems :
              (VisibleWithAnimations(e) /\ ~elems'[e].isVisible)
              => (log'[1].ev = "intersect" /\ log'[1].val = 0)]_vars

\* after an earlier batch the observer can deliver an entry for a visible
\* member that is still intersecting with a ratio below the threshold: the
\* entry is processed and the member stays visible
C34_Witness ==
    /\ ~st.updating
    /\ st.prevScrollY # NULL
    /\ \E e \in Range(observed) :
           /\ VisibleWithAnimations(e)
           /\ StillIntersecting(e)
           /\ RatioBelow(EntryFor(Machine("intersect"), e), elems[e].threshold)
           /\ LET S == IntersectEvent(Machine("intersect"), {e}) IN
              WasRead(S, e) /\ S.elems[e].isVisible

(***************************************************************************)
(* Temporarily unobserved members                                          *)
(***************************************************************************)
\* the observer is done with member e: its group plays on load, or it is
\* animated and its group keeps its animations
UnobservedAsFinished(e) ==
    \/ groups[elems[e].group].playsOnLoad
    \/ groups[elems[e].group].removesAnimationWhenNotInView = "false"
       /\ elems[e].isAnimated

\* C35: a scroll or resize event in event-driven mode observes every
\* temporarily unobserved member again and leaves the list of those members
\* empty; a member that is not observed after the event was unobserved as
\* finished
C35_ReobservedAtNextScrollOrResize ==
    [][(~useScroll /\ log'[1].ev \in {"scroll", "resize"})
       => /\ st'.unobservedElems = <<>>
          /\ \A e \in Range(st.unobservedElems) : e \in Range(observed')
          /\ \A e \in DOMAIN elems :
                 e \notin Range(observed') => UnobservedAsFinished(e)']_vars

\* a scroll or resize event has just happened and the observer holds a
\* member it had unobserved: re-observed members are appended, after the
\* members that follow them in the document
C35_Witness ==
    /\ ~useScroll
    /\ log[1].ev \in {"scroll", "resize"}
    /\ st.unobservedElems = <<>>
    /\ \E i, j \in DOMAIN observed : i < j /\ observed[i] > observed[j]

(***************************************************************************)
(* What the read phase leaves alone                                        *)
(***************************************************************************)
\* what the decision logic owns: each member's isAnimated, animated class
\* and inline style, and each group's count of animated members, finished
\* flag, group delay and delaying flag
WriteOwned(S) ==
    [ members |-> [e \in DOMAIN S.elems |->
                      [ isAnimated |-> S.elems[e].isAnimated,
                        class |-> S.dom.els[e].animated,
                        style |-> S.dom.els[e].style ]],
      groups |-> [g \in DOMAIN S.groups |->
                     [ numElemsAnimated |-> S.groups[g].numElemsAnimated,
                       isFinishedAnimating |-> S.groups[g].isFinishedAnimating,
                       groupDelay |-> S.groups[g].groupDelay,
                       isDelaying |-> S.groups[g].isDelaying ]] ]

\* the entries the observer reports now for the given targets
EntriesFor(targets) ==
    LET batch == SelectSeq(observed, LAMBDA e : e \in targets) IN
    [i \in 1..Len(batch) |-> EntryFor(Machine("intersect"), batch[i])]

\* C36: readAll, readOne and readEntries leave every member's isAnimated,
\* animated class and inline style and every group's numElemsAnimated,
\* isFinishedAnimating, groupDelay and isDelaying unchanged
C36_ReadsLeaveAnimationState ==
    LET S == Machine("read") IN
    /\ WriteOwned(readAll(S)) = WriteOwned(S)
    /\ \A g \in DOMAIN groups : WriteOwned(readOne(S, g)) = WriteOwned(S)
    /\ \A targets \in SUBSET Range(observed) :
           WriteOwned(readEntries(S, EntriesFor(targets))) = WriteOwned(S)

\* a trigger has just read an animated member and found it not visible
C36_Witness ==
    /\ log[1].ev \in Triggers
    /\ \E r \in Reads :
           /\ elems[log[r].id].isAnimated
           /\ ~elems[log[r].id].isVisible
           /\ dom.els[log[r].id].animated

(***************************************************************************)
(* Aggregate visibility                                                    *)
(***************************************************************************)
\* the members of group g that are visible
VisibleMembers(g) == {e \in Range(groups[g].elems) : elems[e].isVisible}

\* C37: each group's numElemsVisible is the number of its members whose
\* isVisible is true, and the group is visible whenever a member is
C37_VisibleCountIsSumOfFlags ==
    \A g \in DOMAIN groups :
        /\ groups[g].numElemsVisible = Cardinality(VisibleMembers(g))
        /\ groups[g].numElemsVisible \in 0..Len(groups[g].elems)
        /\ VisibleMembers(g) # {} => groups[g].isVisible

\* a read has just found one member of a group visible and another, which
\* was animated while visible, no longer visible
C37_Witness ==
    \E g \in DOMAIN groups :
        /\ groups[g].numElemsVisible = 1
        /\ \E r \in Reads : log[r].id \in VisibleMembers(g)
        /\ \E r \in Reads :
               /\ log[r].id \in Range(groups[g].elems) \ VisibleMembers(g)
               /\ elems[log[r].id].isAnimated

(***************************************************************************)
(* The lock                                                                *)
(***************************************************************************)
\* the steps that empty the frame queue are the animation frames
FrameRunsIsAnimationFrame == [][FrameRuns <=> log'[1].ev = "frame"]_vars

\* the step is a trigger that reaches requestAnimationUpdate
ReachesScheduler ==
    \/ log'[1].ev = "intersect"
    \/ useScroll /\ log'[1].ev = "resize"
    \/ useScroll /\ log'[1].ev = "scroll"

\* C38: eca.state.updating is set exactly while the write phase of a cycle
\* is queued, every frame leaves it cleared, a set flag is eventually
\* cleared when frames keep firing, and a trigger that finds it cleared
\* starts a new cycle
C38_LockIsReleased ==
    /\ [](st.updating <=> CycleCallbacks(rafQueue) # {})
    /\ [][log'[1].ev = "frame" => ~st'.updating]_vars
    /\ (st.updating ~> ~st.updating)
    /\ [][(~st.updating /\ ReachesScheduler)
          => (st'.updating /\ CycleCallbacks(rafQueue') # {})]_vars

\* a trigger has just started a cycle after the write phase of an earlier
\* cycle animated a member
C38_Witness ==
    /\ log[1].ev \in Triggers /\ log[1].ev # "load"
    /\ log[1].val = 0
    /\ st.updating
    /\ \E e \in DOMAIN elems : elems[e].isAnimated

(***************************************************************************)
(* Dropped triggers                                                        *)
(***************************************************************************)
\* the identities the targets of a page can have
TargetIds == 1..3

\* member e is in view by more than its threshold where the page is now
InViewNow(e) ==
    LET rect == getBoundingClientRect(Machine("read"), e) IN
    /\ 4 * rect.top + ThresholdPixels4(e) < 4 * dom.clientHeight
    /\ 4 * rect.bottom - ThresholdPixels4(e) > 0

\* member e is in view past its threshold, not animated, and its group is
\* not delaying
Awaited(e) ==
    /\ e \in DOMAIN elems
    /\ InViewNow(e)
    /\ ~elems[e].isAnimated
    /\ ~groups[elems[e].group].isDelaying

\* the trigger that has just arrived found a cycle in flight
TriggerDropped ==
    /\ log[1].val = 1
    /\ \/ useScroll /\ log[1].ev \in {"scroll", "resize"}
       \/ ~useScroll /\ log[1].ev = "intersect"

\* the trigger that has just arrived started a cycle that read member e
TriggerRead(e) ==
    /\ log[1].ev \in Triggers /\ log[1].val = 0
    /\ \E r \in Reads : log[r].id = e

\* C39: a member in view past its threshold when a trigger is dropped is
\* eventually animated if it stays there and its group does not delay
C39_AnimatedAfterDroppedTrigger ==
    \A e \in TargetIds :
        (TriggerDropped /\ Awaited(e)) ~> (e \in DOMAIN elems /\ ~Awaited(e))

\* the same for a trigger of polling mode that is not dropped
C39_AnimatedAfterTrigger ==
    \A e \in TargetIds :
        (useScroll /\ TriggerRead(e) /\ Awaited(e))
            ~> (e \in DOMAIN elems /\ ~Awaited(e))

(***************************************************************************)
(* Passes per frame                                                        *)
(***************************************************************************)
\* the passes over the members of group g made in the last task
Passes(g) == {i \in DOMAIN log : log[i].ev = "pass" /\ log[i].id = g}

\* C40: an animation frame makes at most one pass over the members of a
\* group
C40_OnePassPerFrame ==
    log[1].ev = "frame" => \A g \in DOMAIN groups : Cardinality(Passes(g)) <= 1

\* the same in the frames in which no continuation of a group delay is due
C40_OnePassPerFrameWithoutContinuation ==
    [][(log'[1].ev = "frame" /\ \A i \in DOMAIN rafQueue : rafQueue[i].cb # "updateOne")
       => \A g \in DOMAIN groups :
              Cardinality({i \in DOMAIN log' : log'[i].ev = "pass" /\ log'[i].id = g}) <= 1]_vars

====
